---------------------------- MODULE Spec2Model ----------------------------
(***************************************************************************)
(* Model of the emotion-sentiment-analyzer core:                           *)
(*   - src/src/sarcasm_detector.py  SarcasmDetector.detect and its five    *)
(*     signal detectors, the confidence fusion, the module singleton;      *)
(*   - src/src/config.py            get_intensity, thresholds, lookups;    *)
(*   - src/src/model.py             SentimentEmotionModel                  *)
(*                                  .predict_with_details;                 *)
(*   - src/src/batch_analysis.py    BatchAnalyzer and its queries.         *)
(*   - src/src/preprocessing.py     clean_text, preprocess_text;           *)
(*   - src/app/app.py               format_prediction.                     *)
(*                                                                         *)
(* Numbers.  Probabilities and thresholds are kept in hundredths           *)
(* (0.55 -> 55).  A sarcasm confidence is a mean of up to five scores, so  *)
(* it is kept in units of 1/6000 (one hundredth = 60 units; 60 is          *)
(* divisible by every possible number of scores 1..5), which makes the     *)
(* mean exact.                                                             *)
(*                                                                         *)
(* Text.  A text is a sequence of tokens.  A token is either a maximal     *)
(* run of word characters (a "word": "great", "Great") or one non-word     *)
(* character (" ", "!", "?", "'", the double quote, ",", ".").  Because    *)
(* words are maximal, the regular expressions' \b holds at both ends of    *)
(* every word token, so a \b-delimited literal pattern matches exactly     *)
(* where its token sequence occurs in the lower-cased token sequence.      *)
(***************************************************************************)
EXTENDS Integers, Sequences, FiniteSets, TLC

VARIABLES
    pc,                 \* position of the call under study
    text,               \* the text argument (token sequence)
    arg_sentiment,      \* detect's optional sentiment argument (None if absent)
    arg_emotion,        \* detect's optional emotion argument (None if absent)
    sarcasm_result,     \* the SarcasmResult of the call (None before it)
    detector_instance,  \* sarcasm_detector._detector_instance
    sentiment_output,   \* sentiment classifier output: label, classes, probs
    emotion_output,     \* emotion classifier output: label, classes, probs
    result,             \* what predict_with_details returned or raised
    predictions,        \* BatchAnalyzer.predictions
    df,                 \* BatchAnalyzer.df: [columns, rows]
    last_query,         \* the last BatchAnalyzer query and what it returned/raised
    callers,            \* threads inside get_sarcasm_detector(): position, local, returns
    constructed         \* number of SarcasmDetector() constructions so far

vars == << pc, text, arg_sentiment, arg_emotion, sarcasm_result,
           detector_instance, sentiment_output, emotion_output, result,
           predictions, df, last_query, callers, constructed >>

\* Python's None, where a string may stand.
None == "<None>"

\* Python's None, where a number may stand (no modelled number is negative).
NoNumber == 0 - 1

-----------------------------------------------------------------------------
(* Generic sequence helpers                                                *)

Min(a, b) == IF a <= b THEN a ELSE b

Max(a, b) == IF a >= b THEN a ELSE b

RECURSIVE SumSeq(_)
SumSeq(s) == IF s = << >> THEN 0 ELSE Head(s) + SumSeq(Tail(s))

\* s[:n]
Take(s, n) == SubSeq(s, 1, Min(n, Len(s)))

InSeq(x, s) == \E i \in 1..Len(s) : s[i] = x

\* [f(x) for x in s if Test(x)], order kept
RECURSIVE Filter(_, _)
Filter(s, keep) ==
    IF s = << >> THEN << >>
    ELSE (IF Head(s) \in keep THEN << Head(s) >> ELSE << >>) \o Filter(Tail(s), keep)

\* All sequences over S of length 0..n
RECURSIVE SeqsUpTo(_, _)
SeqsUpTo(S, n) ==
    IF n = 0 THEN { << >> }
    ELSE LET shorter == SeqsUpTo(S, n - 1)
         IN  shorter \cup { Append(s, x) : s \in { t \in shorter : Len(t) = n - 1 }, x \in S }

-----------------------------------------------------------------------------
(* Text model                                                              *)

SP == " "

DQ == "\""

SQ == "'"

\* Words whose str.lower() differs from the word itself.
Capitalised == {
    "Fantastic", "Great", "I", "Oh", "Perfect", "Really", "Terrible", "Thank",
    "Thanks", "The", "This", "Well", "Yeah", "You", "Your" }

\* str.lower() on one token
LowerTok(t) ==
    CASE t = "Fantastic" -> "fantastic"
      [] t = "Great" -> "great"
      [] t = "I" -> "i"
      [] t = "Oh" -> "oh"
      [] t = "Perfect" -> "perfect"
      [] t = "Really" -> "really"
      [] t = "Terrible" -> "terrible"
      [] t = "Thank" -> "thank"
      [] t = "Thanks" -> "thanks"
      [] t = "The" -> "the"
      [] t = "This" -> "this"
      [] t = "Well" -> "well"
      [] t = "Yeah" -> "yeah"
      [] t = "You" -> "you"
      [] t = "Your" -> "your"
      [] OTHER -> t

\* str.lower() on a text
Lower(toks) == [i \in 1..Len(toks) |-> LowerTok(toks[i])]

NonWordTokens == { SP, "!", "?", SQ, DQ, ",", "." }

\* \w+ : a token that is a run of word characters
IsWord(t) == t \notin NonWordTokens

\* A text is well tokenised when its words are maximal: no two word tokens
\* are adjacent (two adjacent runs of word characters are one word).
WellTokenised(toks) ==
    \A i \in 1..(Len(toks) - 1) : ~(IsWord(toks[i]) /\ IsWord(toks[i + 1]))

\* The literal token pattern p occurs in toks at position i.
OccursAt(p, toks, i) ==
    /\ i >= 1
    /\ i + Len(p) - 1 <= Len(toks)
    /\ \A k \in 1..Len(p) : toks[i + k - 1] = p[k]

\* re.search(r'\b' + p + r'\b', toks) for a literal p that starts and ends
\* with a word character.
Search(p, toks) == \E i \in 1..Len(toks) : OccursAt(p, toks, i)


-----------------------------------------------------------------------------
(* SarcasmDetector: lexicons                                                *)

\* SarcasmDetector.SARCASTIC_PHRASES, each phrase as its token sequence
SARCASTIC_PHRASES == <<
    << "great", SP, "job" >>,
    << "well", SP, "done" >>,
    << "thanks", SP, "a", SP, "lot" >>,
    << "oh", SP, "wonderful" >>,
    << "oh", SP, "great" >>,
    << "just", SP, "wonderful" >>,
    << "just", SP, "perfect" >>,
    << "brilliant", SP, "idea" >>,
    << "genius" >>,
    << "fantastic" >>,
    << "amazing", SP, "work" >>,
    << "real", SP, "smart" >>,
    << "very", SP, "helpful" >>,
    << "so", SP, "helpful" >>,
    << "love", SP, "it", SP, "when" >>,
    << "really", SP, "appreciate" >>,
    << "couldn", SQ, "t", SP, "be", SP, "better" >> >>

\* SarcasmDetector.NEGATIVE_CONTEXT
NEGATIVE_CONTEXT == <<
    << "terrible" >>, << "awful" >>, << "horrible" >>, << "worst" >>,
    << "useless" >>, << "broken" >>, << "failed" >>, << "disaster" >>,
    << "nightmare" >>, << "unacceptable" >>, << "ridiculous" >>,
    << "pathetic" >>, << "waste" >>, << "never" >>, << "disappointed" >>,
    << "frustrated" >>, << "angry" >>, << "furious" >>,
    << "can", SQ, "t", SP, "believe" >>, << "seriously" >>, << "joke" >>,
    << "kidding" >> >>

\* SarcasmDetector.POSITIVE_SURFACE
POSITIVE_SURFACE == <<
    "great", "wonderful", "excellent", "perfect", "amazing", "fantastic",
    "brilliant", "awesome", "outstanding", "superb", "lovely", "nice",
    "thanks", "thank", "appreciate", "love", "enjoy" >>

\* SarcasmDetector.SARCASTIC_INTENSIFIERS
SARCASTIC_INTENSIFIERS == <<
    "really", "so", "very", "such", "totally", "absolutely", "definitely",
    "surely", "clearly", "obviously", "just" >>

\* The detectors' fixed scores, in hundredths.
PHRASE_SCORE == 75

CONTRAST_SCORE == 70

INTENSIFIED_SCORE == 65

PUNCTUATION_SCORE == 55

QUOTED_SCORE == 70

MISMATCH_SCORE == 60

\* One hundredth in confidence units (1/6000): the least common multiple of
\* the possible numbers of scores 1..5.
UNIT == 3 * 4 * 5

-----------------------------------------------------------------------------
(* SarcasmDetector: the five signal detectors.  Each returns                *)
(* [score |-> hundredths, indicators |-> sequence].  An indicator string is  *)
(* kept as [kind |-> its fixed wording, detail |-> the token sequences that  *)
(* are formatted into it].                                                   *)

Indicator(kind, detail) == [kind |-> kind, detail |-> detail]

NoSignal == [score |-> 0, indicators |-> << >>]

\* The sub-sequence of lexicon (order kept) whose patterns occur in toks.
RECURSIVE Found(_, _)
Found(lexicon, toks) ==
    IF lexicon = << >> THEN << >>
    ELSE (IF Search(Head(lexicon), toks) THEN << Head(lexicon) >> ELSE << >>)
         \o Found(Tail(lexicon), toks)

\* _detect_sarcastic_phrases(text_lower): one indicator per matching pattern
_detect_sarcastic_phrases(text_lower) ==
    LET matched == Found(SARCASTIC_PHRASES, text_lower)
        indicators == [i \in 1..Len(matched) |-> Indicator("sarcastic phrase", << matched[i] >>)]
    IN  IF indicators # << >>
        THEN [score |-> PHRASE_SCORE, indicators |-> indicators]
        ELSE NoSignal

\* re.search(r'\b' + intensifier + r'\s+' + positive + r'\b', toks):
\* the intensifier, one or more whitespace tokens, the positive word.
RECURSIVE SpacesThen(_, _, _)
SpacesThen(toks, j, word) ==
    IF j > Len(toks) THEN FALSE
    ELSE IF toks[j] = SP
         THEN (j + 1 <= Len(toks) /\ toks[j + 1] = word) \/ SpacesThen(toks, j + 1, word)
         ELSE FALSE

IntensifiedSearch(intensifier, positive, toks) ==
    \E i \in 1..Len(toks) : toks[i] = intensifier /\ SpacesThen(toks, i + 1, positive)

\* The (intensifier, positive) pairs found, intensifier-major as the two
\* nested loops visit them.
IntensifiedPositives(toks) ==
    LET ni == Len(SARCASTIC_INTENSIFIERS)
        np == Len(POSITIVE_SURFACE)
        all == [k \in 1..(ni * np) |->
                   << SARCASTIC_INTENSIFIERS[((k - 1) \div np) + 1],
                      POSITIVE_SURFACE[((k - 1) % np) + 1] >>]
        hit == { k \in 1..(ni * np) : IntensifiedSearch(all[k][1], all[k][2], toks) }
    IN  IF hit = {} THEN << >>
        ELSE << all[CHOOSE k \in hit : \A m \in hit : k <= m] >>

\* The words of a one-word lexicon (order kept) that occur in toks.
WordsFound(words, toks) ==
    Found([i \in 1..Len(words) |-> << words[i] >>], toks)

\* A contrast check that reports positive words on their own.
_detect_positive_words(text_lower) ==
    LET positive_found == WordsFound(POSITIVE_SURFACE, text_lower)
    IN  IF positive_found # << >>
        THEN [score |-> CONTRAST_SCORE,
              indicators |-> << Indicator("contrast: positive words with negative context",
                                          Take(positive_found, 2)) >>]
        ELSE NoSignal

\* _detect_contrast(text_lower)
_detect_contrast(text_lower) ==
    LET positive_found == WordsFound(POSITIVE_SURFACE, text_lower)
        negative_found == Found(NEGATIVE_CONTEXT, text_lower)
        intensified == IntensifiedPositives(text_lower)
        contrast == positive_found # << >> /\ negative_found # << >>
        ind1 == IF contrast
                THEN << Indicator("contrast: positive words with negative context",
                                     Take(positive_found, 2) \o << << "with" >> >>
                                         \o Take(negative_found, 2)) >>
                ELSE << >>
        score1 == IF contrast THEN CONTRAST_SCORE ELSE 0
        ind2 == IF intensified # << >>
                THEN << Indicator("intensified positive", << intensified[1] >>) >>
                ELSE << >>
        score2 == IF intensified # << >> THEN Max(score1, INTENSIFIED_SCORE) ELSE score1
    IN  [score |-> score2, indicators |-> ind1 \o ind2]

\* A run of at least n adjacent tokens, each in chars: re.search('[chars]{n,}')
HasRun(toks, chars, n) ==
    \E i \in 1..Len(toks) :
        /\ i + n - 1 <= Len(toks)
        /\ \A k \in i..(i + n - 1) : toks[k] \in chars

\* A punctuation check that scores without naming an indicator.
_detect_punctuation_unnamed(toks) ==
    IF HasRun(toks, { "!" }, 2) \/ HasRun(toks, { "?" }, 2)
    THEN [score |-> PUNCTUATION_SCORE, indicators |-> << >>]
    ELSE NoSignal

\* _detect_excessive_punctuation(text)
_detect_excessive_punctuation(toks) ==
    LET indicators ==
            (IF HasRun(toks, { "!" }, 2) THEN << Indicator("excessive exclamation marks", << >>) >> ELSE << >>)
         \o (IF HasRun(toks, { "?" }, 2) THEN << Indicator("excessive question marks", << >>) >> ELSE << >>)
         \o (IF HasRun(toks, { "!", "?" }, 3) THEN << Indicator("mixed excessive punctuation", << >>) >> ELSE << >>)
    IN  IF indicators # << >>
        THEN [score |-> PUNCTUATION_SCORE, indicators |-> indicators]
        ELSE NoSignal

\* re.finditer(r'["\'](\w+)["\']', toks): the quoted words, scanning left to
\* right from position i; matches do not overlap (a match consumes its
\* closing quote).
RECURSIVE QuotedWords(_, _)
QuotedWords(toks, i) ==
    IF i + 2 > Len(toks) THEN << >>
    ELSE IF toks[i] \in { SQ, DQ } /\ IsWord(toks[i + 1]) /\ toks[i + 2] \in { SQ, DQ }
         THEN << toks[i + 1] >> \o QuotedWords(toks, i + 3)
         ELSE QuotedWords(toks, i + 1)

\* _detect_quoted_positives(text): matches on text.lower()
_detect_quoted_positives(toks) ==
    LET words == QuotedWords(Lower(toks), 1)
        hits == Filter(words, { POSITIVE_SURFACE[i] : i \in 1..Len(POSITIVE_SURFACE) })
        indicators == [i \in 1..Len(hits) |-> Indicator("quoted positive word", << << hits[i] >> >>)]
    IN  IF indicators # << >>
        THEN [score |-> QUOTED_SCORE, indicators |-> indicators]
        ELSE NoSignal

\* negative_emotions of _detect_polarity_mismatch
MISMATCH_NEGATIVE_EMOTIONS ==
    { "anger", "frustration", "disappointment", "sadness",
      "fear", "anxiety", "annoyance", "regret" }

\* A polarity check that never reports a mismatch.
_detect_no_mismatch(sentiment, emotion) == NoSignal

\* A polarity check that does not look at the sentiment.
_detect_negative_emotion(sentiment, emotion) ==
    IF emotion \in MISMATCH_NEGATIVE_EMOTIONS
    THEN [score |-> MISMATCH_SCORE,
          indicators |-> << Indicator("polarity mismatch: positive sentiment with emotion",
                                       << << emotion >> >>) >>]
    ELSE NoSignal

\* _detect_polarity_mismatch(sentiment, emotion)
_detect_polarity_mismatch(sentiment, emotion) ==
    IF sentiment = "positive" /\ emotion \in MISMATCH_NEGATIVE_EMOTIONS
    THEN [score |-> MISMATCH_SCORE,
          indicators |-> << Indicator("polarity mismatch: positive sentiment with emotion",
                                       << << emotion >> >>) >>]
    ELSE NoSignal

-----------------------------------------------------------------------------
(* SarcasmDetector.detect                                                   *)

\* Python truthiness of an optional string argument
Truthy(x) == x # None /\ x # ""

\* multi_indicator_bonus: 0.15 per extra signal, at most 0.30
BONUS_PER_SIGNAL == 15

BONUS_CAP == 30

CONFIDENCE_CAP == 95

\* is_sarcastic = final_confidence > 0.5
SARCASTIC_ABOVE == 50

\* The fusion without the cap on the bonus.
FuseUncappedBonus(confidence_scores) ==
    IF confidence_scores # << >>
    THEN LET n == Len(confidence_scores)
             base_confidence == (SumSeq(confidence_scores) * UNIT) \div n
             final_confidence ==
                 Min(base_confidence + BONUS_PER_SIGNAL * (n - 1) * UNIT, CONFIDENCE_CAP * UNIT)
         IN  [is_sarcastic |-> final_confidence > SARCASTIC_ABOVE * UNIT,
              confidence |-> final_confidence]
    ELSE [is_sarcastic |-> FALSE, confidence |-> 0]

\* "Calculate overall confidence": confidence_scores (hundredths) to
\* is_sarcastic and final_confidence (units of 1/6000).  The division is
\* exact: UNIT is a multiple of n.
Fuse(confidence_scores) ==
    IF confidence_scores # << >>
    THEN LET n == Len(confidence_scores)
             base_confidence == (SumSeq(confidence_scores) * UNIT) \div n
             multi_indicator_bonus == Min(BONUS_PER_SIGNAL * (n - 1), BONUS_CAP) * UNIT
             final_confidence ==
                 Min(base_confidence + multi_indicator_bonus, CONFIDENCE_CAP * UNIT)
         IN  [is_sarcastic |-> final_confidence > SARCASTIC_ABOVE * UNIT,
              confidence |-> final_confidence]
    ELSE [is_sarcastic |-> FALSE, confidence |-> 0]

\* _generate_explanation(indicators, is_sarcastic)
_generate_explanation(indicators, is_sarcastic) ==
    IF ~is_sarcastic
    THEN [head |-> "No sarcasm detected. Text appears straightforward.", items |-> << >>]
    ELSE IF Len(indicators) = 0
    THEN [head |-> "Low sarcasm signals detected.", items |-> << >>]
    ELSE [head |-> "Sarcasm detected based on:", items |-> Take(indicators, 3)]

\* The (score, indicators) pairs of the five detectors in detection order.
\* The fifth runs only when both sentiment and emotion are supplied.
DetectorResults(toks, sentiment, emotion) ==
    << _detect_sarcastic_phrases(Lower(toks)),
       _detect_contrast(Lower(toks)),
       _detect_excessive_punctuation(toks),
       _detect_quoted_positives(toks),
       IF Truthy(sentiment) /\ Truthy(emotion)
       THEN _detect_polarity_mismatch(sentiment, emotion)
       ELSE NoSignal >>

RECURSIVE FiredScores(_)
FiredScores(rs) ==
    IF rs = << >> THEN << >>
    ELSE (IF Head(rs).score > 0 THEN << Head(rs).score >> ELSE << >>) \o FiredScores(Tail(rs))

RECURSIVE FiredIndicators(_)
FiredIndicators(rs) ==
    IF rs = << >> THEN << >>
    ELSE (IF Head(rs).score > 0 THEN Head(rs).indicators ELSE << >>) \o FiredIndicators(Tail(rs))

\* SarcasmDetector.detect(text, sentiment, emotion) -> SarcasmResult
detect(toks, sentiment, emotion) ==
    LET rs == DetectorResults(toks, sentiment, emotion)
        confidence_scores == FiredScores(rs)
        indicators == FiredIndicators(rs)
        fused == Fuse(confidence_scores)
    IN  [is_sarcastic |-> fused.is_sarcastic,
         confidence |-> fused.confidence,
         indicators |-> indicators,
         explanation |-> _generate_explanation(indicators, fused.is_sarcastic)]

\* get_sarcasm_detector(): the module singleton after the call
TheDetector == "SarcasmDetector"

get_sarcasm_detector(instance) == IF instance = None THEN TheDetector ELSE instance

-----------------------------------------------------------------------------
(* config.py                                                                *)

\* INTENSITY_THRESHOLDS, in the dictionary's iteration order
INTENSITY_THRESHOLDS == <<
    [level |-> "low", low |-> 0, high |-> 55],
    [level |-> "medium", low |-> 55, high |-> 75],
    [level |-> "high", low |-> 75, high |-> 100] >>

MIXED_EMOTION_THRESHOLD == 15

SARCASM_PRIORITY_EMOTIONS == { "anger", "frustration", "annoyance", "disappointment" }

\* get_intensity with the upper bound of each band taken inclusive.
get_intensity_inclusive(confidence) ==
    LET hits == { i \in 1..Len(INTENSITY_THRESHOLDS) :
                    /\ INTENSITY_THRESHOLDS[i].low <= confidence
                    /\ confidence <= INTENSITY_THRESHOLDS[i].high }
    IN  IF hits = {} THEN "high"
        ELSE INTENSITY_THRESHOLDS[CHOOSE i \in hits : \A j \in hits : i <= j].level

\* get_intensity(confidence): the first band with low <= confidence < high,
\* and "high" when the loop ends without one.
get_intensity(confidence) ==
    LET hits == { i \in 1..Len(INTENSITY_THRESHOLDS) :
                    /\ INTENSITY_THRESHOLDS[i].low <= confidence
                    /\ confidence < INTENSITY_THRESHOLDS[i].high }
    IN  IF hits = {} THEN "high"
        ELSE INTENSITY_THRESHOLDS[CHOOSE i \in hits : \A j \in hits : i <= j].level

EMOTION_GROUPS == <<
    [group |-> "positive",
     emotions |-> { "joy", "satisfaction", "trust", "excitement", "gratitude", "relief" }],
    [group |-> "negative",
     emotions |-> { "anger", "frustration", "disappointment", "sadness", "fear",
                    "anxiety", "confusion", "annoyance", "regret" }],
    [group |-> "neutral_cognitive",
     emotions |-> { "neutral", "curiosity", "surprise" }] >>

\* get_emotion_group(emotion); the modelled labels are lower case already
get_emotion_group(emotion) ==
    LET hits == { i \in 1..Len(EMOTION_GROUPS) : emotion \in EMOTION_GROUPS[i].emotions }
    IN  IF hits = {} THEN "unknown"
        ELSE EMOTION_GROUPS[CHOOSE i \in hits : \A j \in hits : i <= j].group

Insight(priority, category) == [priority |-> priority, category |-> category]

\* The default insight, for every emotion.
get_default_insight(emotion) == Insight("Low", "Unknown")

\* BUSINESS_INSIGHTS.get(emotion.lower(), default): priority and category
\* (the action text is fixed by the emotion too and is not carried).
get_business_insight(emotion) ==
    CASE emotion \in { "joy", "satisfaction", "trust", "gratitude" } ->
             Insight("Low", "Loyalty Opportunity")
      [] emotion = "excitement" -> Insight("Medium", "Growth Opportunity")
      [] emotion = "relief" -> Insight("Medium", "Recovery Success")
      [] emotion = "anger" -> Insight("Critical", "Crisis Management")
      [] emotion = "frustration" -> Insight("High", "Issue Resolution")
      [] emotion \in { "disappointment", "sadness", "regret" } ->
             Insight("High", "Retention Risk")
      [] emotion = "fear" -> Insight("High", "Trust Building")
      [] emotion = "anxiety" -> Insight("Medium", "Trust Building")
      [] emotion = "confusion" -> Insight("Medium", "User Experience Fix")
      [] emotion = "annoyance" -> Insight("Medium", "Issue Resolution")
      [] emotion = "neutral" -> Insight("Low", "Routine Engagement")
      [] emotion = "curiosity" -> Insight("Low", "Engagement Opportunity")
      [] emotion = "surprise" -> Insight("Medium", "Context Dependent")
      [] OTHER -> Insight("Low", "Unknown")

-----------------------------------------------------------------------------
(* model.py: generate_explanation                                           *)

Sentence(kind, args, indicators) == [kind |-> kind, args |-> args, indicators |-> indicators]

HIGH_CONFIDENCE_ABOVE == 75

MODERATE_CONFIDENCE_ABOVE == 55

\* "strong" sarcasm in the explanation, and the override test: confidence > 0.7
STRONG_SARCASM_ABOVE == 70

CONGRUENT_POSITIVE == { "joy", "satisfaction", "trust", "excitement", "gratitude", "relief" }

CONGRUENT_NEGATIVE ==
    { "anger", "frustration", "disappointment", "sadness", "fear", "anxiety",
      "confusion", "annoyance", "regret" }

\* An explanation that reports a re-evaluation whenever the sentiment given
\* to it is negative.
generate_explanation_by_polarity(sentiment, emotion, emotion_conf, sarcasm, original_sentiment) ==
    LET conf_desc == IF emotion_conf > HIGH_CONFIDENCE_ABOVE THEN "high confidence"
                     ELSE IF emotion_conf > MODERATE_CONFIDENCE_ABOVE THEN "moderate confidence"
                     ELSE "lower confidence"
        base == << Sentence("The model detected", << emotion, conf_desc >>, << >>) >>
        sarcasm_conf_desc ==
            IF sarcasm.confidence > STRONG_SARCASM_ABOVE * UNIT THEN "strong" ELSE "moderate"
        signals == IF sarcasm.indicators # << >>
                   THEN << Sentence("Sarcasm signals", << >>, Take(sarcasm.indicators, 2)) >>
                   ELSE << >>
        closing == IF sentiment = "negative"
                   THEN << Sentence("sarcasm detection re-evaluated",
                                    << "positive", sentiment >>, << >>) >>
                   ELSE << Sentence("sentiment interpretation accounts for the detected sarcasm",
                                    << sentiment >>, << >>) >>
        aligned == \/ (sentiment = "positive" /\ emotion \in CONGRUENT_POSITIVE)
                   \/ (sentiment = "negative" /\ emotion \in CONGRUENT_NEGATIVE)
    IN  IF sarcasm.is_sarcastic
        THEN base \o << Sentence("sarcasm detected", << sarcasm_conf_desc >>, << >>) >>
                  \o signals \o closing
        ELSE IF aligned
        THEN base \o << Sentence("sentiment aligns with the emotion",
                                 << sentiment, emotion >>, << >>) >>
        ELSE base

\* generate_explanation(...): the sentences of the explanation in order, each
\* as its template and the values formatted into it.  The keyword sentence
\* (substring matches of the emotion's keyword lexicon in the text, or the
\* classifier's top tokens) is not carried: it depends on the characters of
\* the text and on the external feature extraction only.
generate_explanation(sentiment, emotion, emotion_conf, sarcasm, original_sentiment) ==
    LET conf_desc == IF emotion_conf > HIGH_CONFIDENCE_ABOVE THEN "high confidence"
                     ELSE IF emotion_conf > MODERATE_CONFIDENCE_ABOVE THEN "moderate confidence"
                     ELSE "lower confidence"
        base == << Sentence("The model detected", << emotion, conf_desc >>, << >>) >>
        sarcasm_conf_desc ==
            IF sarcasm.confidence > STRONG_SARCASM_ABOVE * UNIT THEN "strong" ELSE "moderate"
        signals == IF sarcasm.indicators # << >>
                   THEN << Sentence("Sarcasm signals", << >>, Take(sarcasm.indicators, 2)) >>
                   ELSE << >>
        closing == IF Truthy(original_sentiment) /\ original_sentiment # sentiment
                   THEN << Sentence("sarcasm detection re-evaluated",
                                    << original_sentiment, sentiment >>, << >>) >>
                   ELSE << Sentence("sentiment interpretation accounts for the detected sarcasm",
                                    << sentiment >>, << >>) >>
        aligned == \/ (sentiment = "positive" /\ emotion \in CONGRUENT_POSITIVE)
                   \/ (sentiment = "negative" /\ emotion \in CONGRUENT_NEGATIVE)
    IN  IF sarcasm.is_sarcastic
        THEN base \o << Sentence("sarcasm detected", << sarcasm_conf_desc >>, << >>) >>
                  \o signals \o closing
        ELSE IF aligned
        THEN base \o << Sentence("sentiment aligns with the emotion",
                                 << sentiment, emotion >>, << >>) >>
        ELSE base

-----------------------------------------------------------------------------
(* model.py: SentimentEmotionModel.predict_with_details                     *)

\* list.index(x): the first position of x (1-based here), 0 when absent
\* (Python raises ValueError).
IndexOf(x, s) ==
    IF InSeq(x, s) THEN CHOOSE i \in 1..Len(s) : s[i] = x /\ \A j \in 1..(i - 1) : s[j] # x
    ELSE 0

\* zip(classes, probs): pairs up to the shorter of the two
Zip(classes, probs) ==
    [i \in 1..Min(Len(classes), Len(probs)) |-> [class |-> classes[i], p |-> probs[i]]]

\* Insert x into a list sorted by p descending, behind every element whose p
\* is at least x.p.
RECURSIVE InsertDesc(_, _)
InsertDesc(sorted, x) ==
    IF sorted = << >> THEN << x >>
    ELSE IF Head(sorted).p >= x.p THEN << Head(sorted) >> \o InsertDesc(Tail(sorted), x)
    ELSE << x >> \o sorted

\* sorted(pairs, key=lambda x: x[1], reverse=True): stable, so equal
\* probabilities keep the class-list order.
RECURSIVE SortedDesc(_)
SortedDesc(pairs) ==
    IF pairs = << >> THEN << >>
    ELSE InsertDesc(SortedDesc(SubSeq(pairs, 1, Len(pairs) - 1)), pairs[Len(pairs)])

Raise(exception) == [raised |-> exception]

Raised(r) == r.raised # None

\* The override rule flipping the polarity in both directions.
ReinterpretBothWays(sentiment, emotion, sarcasm) ==
    IF sarcasm.is_sarcastic /\ sarcasm.confidence > STRONG_SARCASM_ABOVE * UNIT
       /\ emotion \in SARCASM_PRIORITY_EMOTIONS
    THEN (IF sentiment = "positive" THEN "negative"
          ELSE IF sentiment = "negative" THEN "positive" ELSE sentiment)
    ELSE sentiment

\* "If sarcasm detected with high confidence, re-interpret sentiment"
\* without the test on the emotion.
ReinterpretIgnoringEmotion(sentiment, emotion, sarcasm) ==
    IF sarcasm.is_sarcastic /\ sarcasm.confidence > STRONG_SARCASM_ABOVE * UNIT
       /\ sentiment = "positive"
    THEN "negative"
    ELSE sentiment

\* The override rule with the confidence test at 0.75.
ReinterpretAboveThreeQuarters(sentiment, emotion, sarcasm) ==
    IF sarcasm.is_sarcastic /\ sarcasm.confidence > 75 * UNIT
       /\ sentiment = "positive"
       /\ emotion \in SARCASM_PRIORITY_EMOTIONS
    THEN "negative"
    ELSE sentiment

\* "If sarcasm detected with high confidence, re-interpret sentiment":
\* the sentiment after the override rule.
Reinterpret(sentiment, emotion, sarcasm) ==
    IF sarcasm.is_sarcastic /\ sarcasm.confidence > STRONG_SARCASM_ABOVE * UNIT
       /\ sentiment = "positive"
       /\ emotion \in SARCASM_PRIORITY_EMOTIONS
    THEN "negative"
    ELSE sentiment

\* "Detect mixed emotions" with the gap test not strict.
MixedEmotionsNotStrict(emotion_probs_sorted) ==
    LET secondary_emotion ==
            IF Len(emotion_probs_sorted) > 1 THEN emotion_probs_sorted[2].class ELSE None
        secondary_conf == IF Len(emotion_probs_sorted) > 1 THEN emotion_probs_sorted[2].p ELSE 0
    IN  [primary_emotion |-> emotion_probs_sorted[1].class,
         secondary_emotion |-> secondary_emotion,
         secondary_conf |-> secondary_conf,
         is_mixed |-> Truthy(secondary_emotion)
                      /\ (emotion_probs_sorted[1].p - secondary_conf) <= MIXED_EMOTION_THRESHOLD]

\* "Detect mixed emotions": primary, secondary candidate and the flag, from
\* the sorted (class, probability) pairs.
MixedEmotions(emotion_probs_sorted) ==
    LET secondary_emotion ==
            IF Len(emotion_probs_sorted) > 1 THEN emotion_probs_sorted[2].class ELSE None
        secondary_conf == IF Len(emotion_probs_sorted) > 1 THEN emotion_probs_sorted[2].p ELSE 0
    IN  [primary_emotion |-> emotion_probs_sorted[1].class,
         secondary_emotion |-> secondary_emotion,
         secondary_conf |-> secondary_conf,
         is_mixed |-> Truthy(secondary_emotion)
                      /\ (emotion_probs_sorted[1].p - secondary_conf) < MIXED_EMOTION_THRESHOLD]

\* The returned dictionary with the secondary fields not cleared when the
\* emotion is not mixed.
AssembleKeepingSecondary(sentiment, sentiment_conf, emotion_conf, mixed, sarcasm, insight, explanation) ==
    [raised |-> None,
     sentiment |-> sentiment,
     sentiment_confidence |-> sentiment_conf,
     sentiment_intensity |-> get_intensity(sentiment_conf),
     emotion |-> mixed.primary_emotion,
     emotion_confidence |-> emotion_conf,
     emotion_intensity |-> get_intensity(emotion_conf),
     secondary_emotion |-> mixed.secondary_emotion,
     secondary_confidence |-> IF mixed.is_mixed THEN mixed.secondary_conf ELSE NoNumber,
     is_mixed_emotion |-> mixed.is_mixed,
     sarcasm_detected |-> sarcasm.is_sarcastic,
     sarcasm_confidence |-> sarcasm.confidence,
     sarcasm_indicators |-> sarcasm.indicators,
     business_insight |-> insight,
     explanation |-> explanation]

\* The returned dictionary with the sentiment confidence taken from the
\* sarcasm confidence when the sentiment is a detected-sarcasm negative.
AssembleSarcasmConfidence(sentiment, sentiment_conf, emotion_conf, mixed, sarcasm, insight, explanation) ==
    LET conf == IF sarcasm.is_sarcastic /\ sentiment = "negative"
                THEN sarcasm.confidence \div UNIT ELSE sentiment_conf
    IN  [raised |-> None,
         sentiment |-> sentiment,
         sentiment_confidence |-> conf,
         sentiment_intensity |-> get_intensity(conf),
         emotion |-> mixed.primary_emotion,
         emotion_confidence |-> emotion_conf,
         emotion_intensity |-> get_intensity(emotion_conf),
         secondary_emotion |-> IF mixed.is_mixed THEN mixed.secondary_emotion ELSE None,
         secondary_confidence |-> IF mixed.is_mixed THEN mixed.secondary_conf ELSE NoNumber,
         is_mixed_emotion |-> mixed.is_mixed,
         sarcasm_detected |-> sarcasm.is_sarcastic,
         sarcasm_confidence |-> sarcasm.confidence,
         sarcasm_indicators |-> sarcasm.indicators,
         business_insight |-> insight,
         explanation |-> explanation]

\* The returned dictionary (lines 186-201).
Assemble(sentiment, sentiment_conf, emotion_conf, mixed, sarcasm, insight, explanation) ==
    [raised |-> None,
     sentiment |-> sentiment,
     sentiment_confidence |-> sentiment_conf,
     sentiment_intensity |-> get_intensity(sentiment_conf),
     emotion |-> mixed.primary_emotion,
     emotion_confidence |-> emotion_conf,
     emotion_intensity |-> get_intensity(emotion_conf),
     secondary_emotion |-> IF mixed.is_mixed THEN mixed.secondary_emotion ELSE None,
     secondary_confidence |-> IF mixed.is_mixed THEN mixed.secondary_conf ELSE NoNumber,
     is_mixed_emotion |-> mixed.is_mixed,
     sarcasm_detected |-> sarcasm.is_sarcastic,
     sarcasm_confidence |-> sarcasm.confidence,
     sarcasm_indicators |-> sarcasm.indicators,
     business_insight |-> insight,
     explanation |-> explanation]

\* The detector called on the text alone, without the labels.
SarcasmOfTextAlone(toks, s_out, e_out) == detect(toks, None, None)

\* The SarcasmResult computed inside predict_with_details (line 155): detect
\* is called with the classifier's labels.
SarcasmOf(toks, s_out, e_out) == detect(toks, s_out.label, e_out.label)

\* predict_with_details(text) for the classifier outputs s_out, e_out
\* ([label, classes, probs]): the returned dictionary, or the exception the
\* call ends in.
predict_with_details(toks, s_out, e_out) ==
    LET sentiment == s_out.label
        emotion == e_out.label
        si == IndexOf(sentiment, s_out.classes)
        ei == IndexOf(emotion, e_out.classes)
    IN  IF si = 0 THEN Raise("ValueError")
        ELSE IF si > Len(s_out.probs) THEN Raise("IndexError")
        ELSE IF ei = 0 THEN Raise("ValueError")
        ELSE IF ei > Len(e_out.probs) THEN Raise("IndexError")
        ELSE
        LET sentiment_conf == s_out.probs[si]
            emotion_conf == e_out.probs[ei]
            mixed == MixedEmotions(SortedDesc(Zip(e_out.classes, e_out.probs)))
            sarcasm == SarcasmOf(toks, s_out, e_out)
            original_sentiment == sentiment
            final_sentiment == Reinterpret(sentiment, emotion, sarcasm)
            insight == get_business_insight(emotion)
            explanation ==
                generate_explanation(final_sentiment, emotion, emotion_conf, sarcasm,
                                     IF final_sentiment # original_sentiment
                                     THEN original_sentiment ELSE None)
        IN  Assemble(final_sentiment, sentiment_conf, emotion_conf, mixed, sarcasm,
                     insight, explanation)

-----------------------------------------------------------------------------
(* preprocessing.py, on token sequences.  The modelled characters hold no   *)
(* URL, HTML tag or emoji, so strip_urls, strip_html and strip_emojis leave *)
(* the text as it is.                                                       *)

\* The characters of string.punctuation among the modelled tokens.
PUNCTUATION == { "!", "?", SQ, DQ, ",", "." }

\* A cleaning step that removes nothing.
strip_nothing(toks) == toks

\* strip_punctuation(text): the punctuation characters are deleted, so the
\* words on both sides of a deleted run become one word ("you've" -> "youve").
RECURSIVE strip_punctuation(_)
strip_punctuation(toks) ==
    IF toks = << >> THEN << >>
    ELSE LET rest == strip_punctuation(Tail(toks))
         IN  IF Head(toks) \in PUNCTUATION THEN rest
             ELSE IF IsWord(Head(toks)) /\ rest # << >> /\ IsWord(Head(rest))
             THEN << Head(toks) \o Head(rest) >> \o Tail(rest)
             ELSE << Head(toks) >> \o rest

\* re.sub(r"\s+", " ", text): every run of whitespace becomes one space
RECURSIVE CollapseSpaces(_)
CollapseSpaces(toks) ==
    IF toks = << >> THEN << >>
    ELSE IF Head(toks) = SP /\ Len(toks) > 1 /\ toks[2] = SP THEN CollapseSpaces(Tail(toks))
    ELSE << Head(toks) >> \o CollapseSpaces(Tail(toks))

\* str.strip() of a text whose whitespace runs are single spaces
Strip(toks) ==
    LET first == IF toks # << >> /\ toks[1] = SP THEN 2 ELSE 1
        last == IF toks # << >> /\ toks[Len(toks)] = SP THEN Len(toks) - 1 ELSE Len(toks)
    IN  SubSeq(toks, first, last)

\* normalize_whitespace(text)
normalize_whitespace(toks) == Strip(CollapseSpaces(toks))

\* clean_text(text) for a string
clean_text(toks) == normalize_whitespace(strip_punctuation(Lower(toks)))

\* tokenize(text) on a cleaned text: word_tokenize splits it at the spaces
\* (the modelled words hold none of the contractions it would split further)
RECURSIVE tokenize(_)
tokenize(toks) ==
    IF toks = << >> THEN << >>
    ELSE (IF Head(toks) # SP THEN << Head(toks) >> ELSE << >>) \o tokenize(Tail(toks))

\* stopwords.words("english"), restricted to the words of the modelled texts
STOPWORDS == {
    "a", "again", "and", "any", "for", "i", "in", "is", "just", "me", "my", "so",
    "t", "that", "the", "this", "to", "up", "ve", "very", "was", "with", "you", "your" }

\* remove_stopwords(tokens)
RECURSIVE remove_stopwords(_)
remove_stopwords(tokens) ==
    IF tokens = << >> THEN << >>
    ELSE (IF Head(tokens) \in STOPWORDS THEN << >> ELSE << Head(tokens) >>)
         \o remove_stopwords(Tail(tokens))

\* " ".join(tokens)
RECURSIVE Join(_)
Join(tokens) ==
    IF Len(tokens) <= 1 THEN tokens
    ELSE << Head(tokens), SP >> \o Join(Tail(tokens))

\* preprocess_text(text)
preprocess_text(toks) == Join(remove_stopwords(tokenize(clean_text(toks))))

-----------------------------------------------------------------------------
(* Inputs                                                                   *)

\* Longest enumerated text, in tokens.
MaxLen == 3

Vocabulary == { "great", "Great", "job", "fantastic", "terrible", "so", SP, "!", "?", SQ }

\* Longer texts, in which three and four text detectors fire together.
SampleTexts == {
    << "Great", SP, "job", "!", SP, "terrible" >>,
    << SQ, "fantastic", SQ, SP, "terrible" >>,
    << SQ, "Fantastic", SQ, SP, "terrible", "!", "!" >>,
    << "so", SP, SP, "great", "?", "?", "!", SQ, "great", SQ >> }

\* tests/test_sarcasm.py, test table: the texts expected to be sarcastic.
SarcasticCases == {
    << "Great", SP, "job", SP, "breaking", SP, "my", SP, "order", SP, "again", "!" >>,
    << "Oh", SP, "wonderful", ",", SP, "another", SP, "delay", ".", SP, "Thanks", SP,
       "a", SP, "lot", "!" >>,
    << "Really", SP, "helpful", SP, "customer", SP, "service", "!", "!", "!" >>,
    << "Your", SP, SQ, "great", SQ, SP, "support", SP, "team", SP, "ignored", SP, "me",
       SP, "for", SP, "days" >>,
    << "Yeah", ",", SP, "so", SP, "helpful", ",", SP, "leaving", SP, "me", SP,
       "without", SP, "any", SP, "solution" >> }

\* tests/test_sarcasm.py, test table: the texts expected not to be sarcastic.
GenuineCases == {
    << "Thank", SP, "you", SP, "so", SP, "much", "!", SP, "This", SP, "is", SP,
       "amazing", "!" >>,
    << "Really", SP, "happy", SP, "with", SP, "the", SP, "quality", SP, "and", SP,
       "service" >>,
    << "The", SP, "product", SP, "is", SP, "okay", ",", SP, "nothing", SP, "special" >>,
    << "This", SP, "is", SP, "terrible", SP, "and", SP, "I", SP, "want", SP, "a", SP,
       "refund" >>,
    << "I", SP, "love", SP, "the", SP, "new", SP, "features", ",", SP, "great", SP,
       "work", "!" >> }

\* tests/test_sarcasm.py, test table: the borderline texts, expected to be
\* sarcastic.
BorderlineCases == {
    << "Well", ",", SP, "that", SP, "was", SP, "interesting", ".", ".", "." >>,
    << "Perfect", SP, "timing", ",", SP, "just", SP, "perfect" >> }

\* tests/test_sarcasm.py, test_integrated_system: the first text.
OrderScenario ==
    << "Great", SP, "job", "!", SP, "You", SQ, "ve", SP, "managed", SP, "to", SP,
       "mess", SP, "up", SP, "my", SP, "order", SP, "three", SP, "times", SP, "in", SP,
       "a", SP, "row", "." >>

Texts ==
    { t \in SeqsUpTo(Vocabulary, MaxLen) : WellTokenised(t) } \cup SampleTexts
    \cup SarcasticCases \cup GenuineCases \cup BorderlineCases

DetectSentiments == { None, "", "positive", "negative", "neutral" }

\* anger: mismatching and overriding; sadness: mismatching only; confusion:
\* negative, not mismatching; joy: positive.
DetectEmotions == { None, "anger", "sadness", "confusion", "joy" }

\* The texts given to predict_with_details.
EnrichTexts == {
    << >>,
    << "!", "!" >>,
    << SQ, "great", SQ >>,
    << "Great", SP, "job" >>,
    << "so", SP, "great" >>,
    << SQ, "Fantastic", SQ, SP, "terrible", "!", "!" >>,
    OrderScenario }

\* Probability values, in hundredths.
Levels == { 5 * k : k \in 0..20 } \cup { 48, 52 }

\* The probability vectors of length n over Levels that sum to 1.
RECURSIVE Distributions(_, _)
Distributions(n, total) ==
    IF n = 0 THEN (IF total = 0 THEN { << >> } ELSE {})
    ELSE UNION { { << p >> \o d : d \in Distributions(n - 1, total - p) } :
                 p \in { q \in Levels : q <= total } }

\* A short and a long probability vector, for outputs whose vector does not
\* match the class list.
OddVectors == { << 60, 40 >>, << 40, 30, 20, 10 >> }

SENTIMENT_CLASSES == << "negative", "neutral", "positive" >>

SentimentVectors == { << 10, 15, 75 >>, << 55, 25, 20 >> }

\* classes_ lists of the emotion classifier (sorted, as scikit-learn keeps them)
EmotionClassLists == { << "joy" >>, << "gratitude", "joy" >>, << "anger", "fear", "joy" >> }

Output(label, classes, probs) == [label |-> label, classes |-> classes, probs |-> probs]

\* The label's probability is the largest, and there is one per class.
Consistent(out) ==
    /\ InSeq(out.label, out.classes)
    /\ Len(out.probs) = Len(out.classes)
    /\ \A i \in 1..Len(out.probs) : out.probs[i] <= out.probs[IndexOf(out.label, out.classes)]

\* Classifier outputs with one probability per class and a label of the
\* class list (the label need not be the most probable class).
WellFormedOutputs(classes, vectors) ==
    { Output(classes[i], classes, v) : i \in 1..Len(classes), v \in vectors }

\* Classifier outputs with a label outside the class list or with a
\* probability vector of another length.
MalformedOutputs(classes) ==
    { Output("unlisted", classes, [i \in 1..Len(classes) |-> IF i = 1 THEN 100 ELSE 0]) }
    \cup { Output(classes[i], classes, v) :
             i \in 1..Len(classes), v \in { w \in OddVectors : Len(w) # Len(classes) } }

SentimentOutputs ==
    WellFormedOutputs(SENTIMENT_CLASSES, SentimentVectors) \cup MalformedOutputs(SENTIMENT_CLASSES)

EmotionOutputs ==
    UNION { WellFormedOutputs(c, Distributions(Len(c), 100)) \cup MalformedOutputs(c) :
            c \in EmotionClassLists }

NoOutput == Output(None, << >>, << >>)

NoBatch == [columns |-> {}, rows |-> << >>]

NoQuery == [name |-> None]

\* predict_with_details has not been called.
NoResult == [raised |-> None]

\* No thread calls get_sarcasm_detector().
NoCallers == << >>

-----------------------------------------------------------------------------
(* Specification SpecDetect: one call of SarcasmDetector.detect             *)

InitDetect ==
    /\ pc = "detect"
    /\ text \in Texts
    /\ arg_sentiment \in DetectSentiments
    /\ arg_emotion \in DetectEmotions
    /\ sarcasm_result = None
    /\ detector_instance = TheDetector
    /\ sentiment_output = NoOutput
    /\ emotion_output = NoOutput
    /\ result = NoResult
    /\ predictions = << >>
    /\ df = NoBatch
    /\ last_query = NoQuery
    /\ callers = NoCallers
    /\ constructed = 0

\* detector.detect(text, sentiment, emotion)
DetectCall ==
    /\ pc = "detect"
    /\ sarcasm_result' = detect(text, arg_sentiment, arg_emotion)
    /\ pc' = "done"
    /\ UNCHANGED << text, arg_sentiment, arg_emotion, detector_instance, sentiment_output,
                    emotion_output, result, predictions, df, last_query,
                    callers, constructed >>

NextDetect == DetectCall

SpecDetect == InitDetect /\ [][NextDetect]_vars

-----------------------------------------------------------------------------
(* Specification Spec: one call of predict_with_details                     *)

Init ==
    /\ pc = "predict"
    /\ text \in EnrichTexts
    /\ sentiment_output \in SentimentOutputs
    /\ emotion_output \in EmotionOutputs
    /\ detector_instance = None
    /\ arg_sentiment = None
    /\ arg_emotion = None
    /\ sarcasm_result = None
    /\ result = NoResult
    /\ predictions = << >>
    /\ df = NoBatch
    /\ last_query = NoQuery
    /\ callers = NoCallers
    /\ constructed = 0

\* model.predict_with_details(text): the call returns a dictionary or ends
\* in an exception.  The detector singleton is created on line 154, which
\* is reached only when the confidence look-ups did not raise.
PredictWithDetails ==
    /\ pc = "predict"
    /\ result' = predict_with_details(text, sentiment_output, emotion_output)
    /\ detector_instance' = IF Raised(result') THEN detector_instance
                            ELSE get_sarcasm_detector(detector_instance)
    /\ pc' = "done"
    /\ UNCHANGED << text, arg_sentiment, arg_emotion, sarcasm_result, sentiment_output,
                    emotion_output, predictions, df, last_query, callers, constructed >>

Next == PredictWithDetails

Spec == Init /\ [][Next]_vars

-----------------------------------------------------------------------------
(* batch_analysis.py: BatchAnalyzer                                         *)
(*                                                                          *)
(* The DataFrame is [columns |-> the column names, rows |-> the rows].      *)
(* pandas builds it from the prediction dictionaries: the columns are the   *)
(* dictionaries' keys, so a DataFrame built from no dictionary has no       *)
(* column at all, and df[name] raises KeyError for a name that is not a     *)
(* column.  A percentage count / total * 100 is kept as the pair            *)
(* << count * 100, total >> (numerator, denominator).                       *)

Ret(v) == [raised |-> None, value |-> v]

KeyError == [raised |-> "KeyError", value |-> << >>]

HasCol(d, c) == c \in d.columns

Pct(count, total) == << count * 100, total >>

\* pd.DataFrame() : no columns, no rows
EmptyFrame == [columns |-> {}, rows |-> << >>]

\* pd.DataFrame(predictions)
DataFrame(preds) ==
    [columns |-> UNION { DOMAIN preds[i] : i \in 1..Len(preds) }, rows |-> preds]

\* The indices of the rows for which the test holds, as a sub-frame in the
\* original order.
RECURSIVE SelectRows(_, _)
SelectRows(rows, keep) ==
    IF rows = << >> THEN << >>
    ELSE (IF Len(rows) \in keep THEN SelectRows(SubSeq(rows, 1, Len(rows) - 1), keep) \o << rows[Len(rows)] >>
          ELSE SelectRows(SubSeq(rows, 1, Len(rows) - 1), keep))

\* frame[[c1, c2, ...]]
Project(rows, cols) == [i \in 1..Len(rows) |-> [c \in cols |-> rows[i][c]]]

\* Series.value_counts(): each observed value with its number of rows
ValueCounts(rows, col) ==
    [v \in { rows[i][col] : i \in 1..Len(rows) } |->
        Cardinality({ i \in 1..Len(rows) : rows[i][col] = v })]

\* The percentages taken over the number of distinct values instead of the
\* number of rows.
PercentagesOverLabels(counts, total) ==
    [k \in DOMAIN counts |-> Pct(counts[k], Cardinality(DOMAIN counts))]

\* {k: v / total * 100 for k, v in counts.items()}
Percentages(counts, total) == [k \in DOMAIN counts |-> Pct(counts[k], total)]

\* Series.sum() of a column of booleans
CountTrue(rows, col) == Cardinality({ i \in 1..Len(rows) : rows[i][col] = TRUE })

\* Series.sum() of a column of numbers
RECURSIVE SumCol(_, _)
SumCol(rows, col) == IF rows = << >> THEN 0 ELSE Head(rows)[col] + SumCol(Tail(rows), col)

\* BatchAnalyzer.sentiment_distribution()
sentiment_distribution(d) ==
    IF ~HasCol(d, "sentiment") THEN KeyError
    ELSE Ret(Percentages(ValueCounts(d.rows, "sentiment"), Len(d.rows)))

\* BatchAnalyzer.emotion_distribution()
emotion_distribution(d) ==
    IF ~HasCol(d, "emotion") THEN KeyError
    ELSE Ret(Percentages(ValueCounts(d.rows, "emotion"), Len(d.rows)))

\* Series.mode()[0]: the most frequent value, the smallest one when several
\* are equally frequent (mode() returns its values sorted).  Labels are
\* ordered by LabelOrder, the alphabetical order of the modelled labels.
LabelOrder == << "anger", "fear", "gratitude", "joy" >>

Mode0(rows, col) ==
    LET counts == ValueCounts(rows, col)
        modes == { v \in DOMAIN counts : \A w \in DOMAIN counts : counts[w] <= counts[v] }
    IN  LabelOrder[CHOOSE i \in 1..Len(LabelOrder) :
                      /\ LabelOrder[i] \in modes
                      /\ \A j \in 1..(i - 1) : LabelOrder[j] \notin modes]

\* BatchAnalyzer.dominant_emotion(): the length is tested before the column
\* is read.
dominant_emotion(d) ==
    IF Len(d.rows) > 0
    THEN (IF ~HasCol(d, "emotion") THEN KeyError ELSE Ret(Mode0(d.rows, "emotion")))
    ELSE Ret("unknown")

\* BatchAnalyzer.average_confidence(): the two means as (sum, count)
average_confidence(d) ==
    IF ~HasCol(d, "sentiment_confidence") \/ ~HasCol(d, "emotion_confidence") THEN KeyError
    ELSE Ret([sentiment |-> << SumCol(d.rows, "sentiment_confidence"), Len(d.rows) >>,
              emotion |-> << SumCol(d.rows, "emotion_confidence"), Len(d.rows) >>])

\* BatchAnalyzer.intensity_breakdown()
intensity_breakdown(d) ==
    IF ~HasCol(d, "sentiment_intensity") \/ ~HasCol(d, "emotion_intensity") THEN KeyError
    ELSE Ret([sentiment |-> ValueCounts(d.rows, "sentiment_intensity"),
              emotion |-> ValueCounts(d.rows, "emotion_intensity")])

\* The DataFrame after self.df["emotion_group"] = self.df["emotion"].apply(...)
WithEmotionGroup(d) ==
    [columns |-> d.columns \cup { "emotion_group" },
     rows |-> [i \in 1..Len(d.rows) |->
                  [emotion_group |-> get_emotion_group(d.rows[i].emotion)] @@ d.rows[i]]]

\* BatchAnalyzer.emotion_group_distribution(): the value returned; the
\* DataFrame becomes WithEmotionGroup(d) unless KeyError is raised.
emotion_group_distribution(d) ==
    IF ~HasCol(d, "emotion") THEN KeyError
    ELSE Ret(Percentages(ValueCounts(WithEmotionGroup(d).rows, "emotion_group"), Len(d.rows)))

\* BatchAnalyzer.mixed_emotion_rate(): the column is summed before the
\* length is tested.
mixed_emotion_rate(d) ==
    IF ~HasCol(d, "is_mixed_emotion") THEN KeyError
    ELSE Ret(IF Len(d.rows) > 0 THEN Pct(CountTrue(d.rows, "is_mixed_emotion"), Len(d.rows))
             ELSE << 0, 1 >>)

\* BatchAnalyzer.sarcasm_rate()
sarcasm_rate(d) ==
    IF ~HasCol(d, "sarcasm_detected") THEN Ret(<< 0, 1 >>)
    ELSE Ret(IF Len(d.rows) > 0 THEN Pct(CountTrue(d.rows, "sarcasm_detected"), Len(d.rows))
             ELSE << 0, 1 >>)

\* sarcastic_feedback without the test on the confidence.
sarcastic_feedback_any_confidence(d, threshold) ==
    IF ~HasCol(d, "sarcasm_detected") THEN Ret(EmptyFrame)
    ELSE IF ~HasCol(d, "sarcasm_confidence") THEN KeyError
    ELSE LET keep == { i \in 1..Len(d.rows) : d.rows[i].sarcasm_detected = TRUE }
             cols == { "text", "emotion", "sentiment", "sarcasm_confidence" }
         IN  IF keep # {}
             THEN (IF cols \subseteq d.columns
                   THEN Ret([columns |-> cols, rows |-> Project(SelectRows(d.rows, keep), cols)])
                   ELSE KeyError)
             ELSE Ret(EmptyFrame)

\* BatchAnalyzer.sarcastic_feedback(threshold), threshold in hundredths
sarcastic_feedback(d, threshold) ==
    IF ~HasCol(d, "sarcasm_detected") THEN Ret(EmptyFrame)
    ELSE IF ~HasCol(d, "sarcasm_confidence") THEN KeyError
    ELSE LET keep == { i \in 1..Len(d.rows) :
                         /\ d.rows[i].sarcasm_detected = TRUE
                         /\ d.rows[i].sarcasm_confidence >= threshold * UNIT }
             cols == { "text", "emotion", "sentiment", "sarcasm_confidence" }
         IN  IF keep # {}
             THEN (IF cols \subseteq d.columns
                   THEN Ret([columns |-> cols, rows |-> Project(SelectRows(d.rows, keep), cols)])
                   ELSE KeyError)
             ELSE Ret(EmptyFrame)

SENTIMENT_LABELS == { "positive", "negative", "neutral" }

\* The correlation over the sentiments that occur in the batch only.
sarcasm_sentiment_correlation_observed(d) ==
    IF ~HasCol(d, "sarcasm_detected") THEN Ret(<< >>)
    ELSE IF ~HasCol(d, "sentiment") THEN KeyError
    ELSE Ret([s \in { d.rows[i].sentiment : i \in 1..Len(d.rows) } |->
                LET rows == { i \in 1..Len(d.rows) : d.rows[i].sentiment = s }
                IN  Pct(Cardinality({ i \in rows : d.rows[i].sarcasm_detected = TRUE }),
                        Cardinality(rows))])

\* BatchAnalyzer.sarcasm_sentiment_correlation()
sarcasm_sentiment_correlation(d) ==
    IF ~HasCol(d, "sarcasm_detected") THEN Ret(<< >>)
    ELSE IF ~HasCol(d, "sentiment") THEN KeyError
    ELSE Ret([s \in SENTIMENT_LABELS |->
                LET rows == { i \in 1..Len(d.rows) : d.rows[i].sentiment = s }
                IN  IF rows # {}
                    THEN Pct(Cardinality({ i \in rows : d.rows[i].sarcasm_detected = TRUE }),
                             Cardinality(rows))
                    ELSE << 0, 1 >>])

\* Counter([pred.get("business_insight", {}).get(field, "Unknown") ...])
InsightCounter(preds, field) ==
    LET of(i) == IF "business_insight" \in DOMAIN preds[i]
                 THEN preds[i].business_insight[field] ELSE "Unknown"
    IN  [v \in { of(i) : i \in 1..Len(preds) } |->
            Cardinality({ i \in 1..Len(preds) : of(i) = v })]

\* BatchAnalyzer.priority_breakdown()
priority_breakdown(preds) == Ret(InsightCounter(preds, "priority"))

\* BatchAnalyzer.category_breakdown()
category_breakdown(preds) == Ret(InsightCounter(preds, "category"))

HIGH_RISK_EMOTIONS == { "anger", "frustration", "disappointment", "regret" }

OPPORTUNITY_EMOTIONS == { "joy", "satisfaction", "gratitude", "trust", "excitement" }

DEFAULT_RISK_THRESHOLD == 75

\* The segment with the threshold included (>= instead of >).
SegmentFromThreshold(d, allowlist, threshold) ==
    IF ~HasCol(d, "emotion") \/ ~HasCol(d, "emotion_confidence") THEN KeyError
    ELSE LET keep == { i \in 1..Len(d.rows) :
                         /\ d.rows[i].emotion \in allowlist
                         /\ d.rows[i].emotion_confidence >= threshold }
             cols == { "text", "emotion", "emotion_confidence", "sentiment" }
         IN  IF keep # {}
             THEN (IF cols \subseteq d.columns
                   THEN Ret([columns |-> cols, rows |-> Project(SelectRows(d.rows, keep), cols)])
                   ELSE KeyError)
             ELSE Ret(EmptyFrame)

\* The rows whose emotion is in the allowlist with emotion_confidence above
\* the threshold, projected to text, emotion, emotion_confidence, sentiment.
Segment(d, allowlist, threshold) ==
    IF ~HasCol(d, "emotion") \/ ~HasCol(d, "emotion_confidence") THEN KeyError
    ELSE LET keep == { i \in 1..Len(d.rows) :
                         /\ d.rows[i].emotion \in allowlist
                         /\ d.rows[i].emotion_confidence > threshold }
             cols == { "text", "emotion", "emotion_confidence", "sentiment" }
         IN  IF keep # {}
             THEN (IF cols \subseteq d.columns
                   THEN Ret([columns |-> cols, rows |-> Project(SelectRows(d.rows, keep), cols)])
                   ELSE KeyError)
             ELSE Ret(EmptyFrame)

\* BatchAnalyzer.high_risk_feedback(threshold)
high_risk_feedback(d, threshold) == Segment(d, HIGH_RISK_EMOTIONS, threshold)

\* BatchAnalyzer.positive_opportunities(threshold)
positive_opportunities(d, threshold) == Segment(d, OPPORTUNITY_EMOTIONS, threshold)

\* The labels with the largest value of a mapping.
ArgMax(dist) == { k \in DOMAIN dist : \A j \in DOMAIN dist : dist[j][1] <= dist[k][1] }

\* The possible first-n key sets of a mapping listed by descending value:
\* every key kept has a value at least that of every key dropped.
TopSets(dist, n) ==
    { top \in SUBSET DOMAIN dist :
        /\ Cardinality(top) = Min(n, Cardinality(DOMAIN dist))
        /\ \A k \in top : \A j \in (DOMAIN dist) \ top : dist[j][1] <= dist[k][1] }

TOP_EMOTIONS == 3

\* priority_counts.get(name, 0)
GetCount(counts, name) == IF name \in DOMAIN counts THEN counts[name] ELSE 0

\* len(frame)
FrameLen(r) == Len(r.value.rows)

\* BatchAnalyzer.generate_summary_report(): [raised, value, df], df being
\* the DataFrame after the call.  The calls are made in the order of the
\* code and the first exception ends the report.  Where sentiments (or
\* emotions) are equally frequent, the order in which value_counts() lists
\* them is the library's: dominant and top are one of the possible outcomes.
generate_summary_report(preds, d, dominant, top) ==
    LET total == Len(d.rows)
        sentiment_dist == sentiment_distribution(d)
        emotion_dist == emotion_distribution(d)
        high_risk == high_risk_feedback(d, DEFAULT_RISK_THRESHOLD)
        positive_opp == positive_opportunities(d, DEFAULT_RISK_THRESHOLD)
        avg_conf == average_confidence(d)
        priority_counts == priority_breakdown(preds).value
        sarcasm_pct == sarcasm_rate(d)
        sarcasm_correlation == sarcasm_sentiment_correlation(d)
        raised_before == \/ Raised(sentiment_dist) \/ Raised(emotion_dist)
                         \/ Raised(high_risk) \/ Raised(positive_opp)
                         \/ Raised(avg_conf) \/ Raised(sarcasm_correlation)
        grouped == WithEmotionGroup(d)
        mixed == mixed_emotion_rate(grouped)
    IN  IF raised_before THEN KeyError @@ [df |-> d]
        ELSE IF Raised(mixed) THEN KeyError @@ [df |-> grouped]
        ELSE Ret([total_feedback |-> total,
                  dominant_sentiment |-> dominant,
                  sentiment_breakdown |-> sentiment_dist.value,
                  top_3_emotions |-> [k \in top |-> emotion_dist.value[k]],
                  emotion_group_distribution |-> emotion_group_distribution(d).value,
                  mixed_emotion_rate |-> mixed.value,
                  sarcasm_rate |-> sarcasm_pct.value,
                  sarcasm_sentiment_correlation |-> sarcasm_correlation.value,
                  average_confidence |-> avg_conf.value,
                  high_risk_count |-> FrameLen(high_risk),
                  positive_opportunity_count |-> FrameLen(positive_opp),
                  urgent_attention_needed |-> GetCount(priority_counts, "Critical")
                                              + GetCount(priority_counts, "High"),
                  priority_breakdown |-> priority_counts,
                  category_breakdown |-> category_breakdown(preds).value]) @@ [df |-> grouped]

\* The choices generate_summary_report can be made with: the dominant
\* sentiment ("unknown" for an empty distribution) and the top three emotions.
Dominants(d) ==
    LET dist == sentiment_distribution(d)
    IN  IF Raised(dist) \/ DOMAIN dist.value = {} THEN { "unknown" } ELSE ArgMax(dist.value)

Tops(d) ==
    LET dist == emotion_distribution(d)
    IN  IF Raised(dist) THEN { {} } ELSE TopSets(dist.value, TOP_EMOTIONS)

\* BatchAnalyzer.get_emotional_trend_text(): the figures the lines show and
\* whether the two sarcasm lines are present.
get_emotional_trend_text(report) ==
    IF Raised(report) THEN report
    ELSE LET summary == report.value
             sarcasm_line == summary.sarcasm_rate[1] > 0
         IN  Ret([total_feedback |-> summary.total_feedback,
                  dominant_sentiment |-> summary.dominant_sentiment,
                  top_3_emotions |-> summary.top_3_emotions,
                  mixed_emotion_rate |-> summary.mixed_emotion_rate,
                  sarcasm_line |-> sarcasm_line,
                  correlation_line |->
                      sarcasm_line /\ DOMAIN summary.sarcasm_sentiment_correlation # {},
                  emotion_group_distribution |-> summary.emotion_group_distribution,
                  high_risk_count |-> summary.high_risk_count,
                  positive_opportunity_count |-> summary.positive_opportunity_count,
                  urgent_attention_needed |-> summary.urgent_attention_needed])
             @@ [df |-> report.df]

-----------------------------------------------------------------------------
(* Specification SpecBatch: queries on one BatchAnalyzer                    *)

\* Largest enumerated batch.
MaxBatch == 3

\* Feedback entries and the classifiers' outputs for them: an angry one, a
\* sarcastic "Great job" whose anger has confidence 0.75 exactly, a joyful
\* one with "!!", a fearful neutral one, and a quoted 'great' between
\* gratitude and joy.
Feedback(toks, s_out, e_out) == [text |-> toks, sentiment |-> s_out, emotion |-> e_out]

BatchInputs == {
    Feedback(<< "terrible" >>,
             Output("negative", SENTIMENT_CLASSES, << 80, 10, 10 >>),
             Output("anger", << "anger", "fear", "joy" >>, << 90, 5, 5 >>)),
    Feedback(<< "Great", SP, "job" >>,
             Output("positive", SENTIMENT_CLASSES, << 10, 15, 75 >>),
             Output("anger", << "anger", "fear", "joy" >>, << 75, 20, 5 >>)),
    Feedback(<< "!", "!" >>,
             Output("positive", SENTIMENT_CLASSES, << 5, 15, 80 >>),
             Output("joy", << "anger", "fear", "joy" >>, << 5, 15, 80 >>)),
    Feedback(<< "job" >>,
             Output("neutral", SENTIMENT_CLASSES, << 20, 60, 20 >>),
             Output("fear", << "anger", "fear", "joy" >>, << 10, 60, 30 >>)),
    Feedback(<< SQ, "great", SQ >>,
             Output("positive", SENTIMENT_CLASSES, << 10, 20, 70 >>),
             Output("gratitude", << "gratitude", "joy" >>, << 52, 48 >>)) }

\* result["text"] = text, on the dictionary predict_with_details returned
WithText(prediction, toks) ==
    [k \in ((DOMAIN prediction) \ { "raised" }) \cup { "text" } |->
        IF k = "text" THEN toks ELSE prediction[k]]

\* A prediction dictionary as BatchAnalyzer receives it: the dictionary of
\* predict_with_details for the text as given, with the text added.
EnrichedItem(toks, s_out, e_out) ==
    CHOOSE item \in { WithText(prediction, toks) :
                         prediction \in { predict_with_details(toks, s_out, e_out) } } : TRUE

BatchItems == { EnrichedItem(f.text, f.sentiment, f.emotion) : f \in BatchInputs }

SARCASM_FIELDS == { "sarcasm_detected", "sarcasm_confidence", "sarcasm_indicators" }

\* The same entries as produced before sarcasm detection existed.
Legacy(preds) ==
    [i \in 1..Len(preds) |-> [k \in (DOMAIN preds[i]) \ SARCASM_FIELDS |-> preds[i][k]]]

Batches ==
    LET current == SeqsUpTo(BatchItems, MaxBatch)
    IN  { IF legacy THEN Legacy(preds) ELSE preds : preds \in current, legacy \in BOOLEAN }

\* Thresholds passed to the segment queries, in hundredths.
Thresholds == { 50, 70, 75, 90 }

\* BatchAnalyzer(predictions)
InitBatch ==
    /\ pc = "batch"
    /\ predictions \in Batches
    /\ df = DataFrame(predictions)
    /\ last_query = NoQuery
    /\ callers = NoCallers
    /\ constructed = 0
    /\ text = << >>
    /\ arg_sentiment = None
    /\ arg_emotion = None
    /\ sarcasm_result = None
    /\ detector_instance = None
    /\ sentiment_output = NoOutput
    /\ emotion_output = NoOutput
    /\ result = NoResult

\* A query that leaves the analyzer as it was.
Answer(name, args, r) ==
    /\ pc = "batch"
    /\ last_query' = [name |-> name, args |-> args, raised |-> r.raised, value |-> r.value]
    /\ UNCHANGED << pc, text, arg_sentiment, arg_emotion, sarcasm_result, detector_instance,
                    sentiment_output, emotion_output, result, predictions, df,
                    callers, constructed >>

\* A query after which the DataFrame is d.
AnswerWith(name, r, d) ==
    /\ pc = "batch"
    /\ last_query' = [name |-> name, args |-> << >>, raised |-> r.raised, value |-> r.value]
    /\ df' = d
    /\ UNCHANGED << pc, text, arg_sentiment, arg_emotion, sarcasm_result, detector_instance,
                    sentiment_output, emotion_output, result, predictions,
                    callers, constructed >>

SentimentDistribution == Answer("sentiment_distribution", << >>, sentiment_distribution(df))

EmotionDistribution == Answer("emotion_distribution", << >>, emotion_distribution(df))

DominantEmotion == Answer("dominant_emotion", << >>, dominant_emotion(df))

AverageConfidence == Answer("average_confidence", << >>, average_confidence(df))

IntensityBreakdown == Answer("intensity_breakdown", << >>, intensity_breakdown(df))

EmotionGroupDistribution ==
    LET r == emotion_group_distribution(df)
    IN  AnswerWith("emotion_group_distribution", r, IF Raised(r) THEN df ELSE WithEmotionGroup(df))

MixedEmotionRate == Answer("mixed_emotion_rate", << >>, mixed_emotion_rate(df))

SarcasmRate == Answer("sarcasm_rate", << >>, sarcasm_rate(df))

SarcasticFeedback ==
    \E threshold \in Thresholds :
        Answer("sarcastic_feedback", << threshold >>, sarcastic_feedback(df, threshold))

SarcasmSentimentCorrelation ==
    Answer("sarcasm_sentiment_correlation", << >>, sarcasm_sentiment_correlation(df))

PriorityBreakdown == Answer("priority_breakdown", << >>, priority_breakdown(predictions))

CategoryBreakdown == Answer("category_breakdown", << >>, category_breakdown(predictions))

HighRiskFeedback ==
    \E threshold \in Thresholds :
        Answer("high_risk_feedback", << threshold >>, high_risk_feedback(df, threshold))

PositiveOpportunities ==
    \E threshold \in Thresholds :
        Answer("positive_opportunities", << threshold >>, positive_opportunities(df, threshold))

GenerateSummaryReport ==
    \E dominant \in Dominants(df) : \E top \in Tops(df) :
        LET r == generate_summary_report(predictions, df, dominant, top)
        IN  AnswerWith("generate_summary_report", r, r.df)

GetEmotionalTrendText ==
    \E dominant \in Dominants(df) : \E top \in Tops(df) :
        LET r == get_emotional_trend_text(
                     generate_summary_report(predictions, df, dominant, top))
        IN  AnswerWith("get_emotional_trend_text", r, r.df)

NextBatch ==
    \/ SentimentDistribution
    \/ EmotionDistribution
    \/ DominantEmotion
    \/ AverageConfidence
    \/ IntensityBreakdown
    \/ EmotionGroupDistribution
    \/ MixedEmotionRate
    \/ SarcasmRate
    \/ SarcasticFeedback
    \/ SarcasmSentimentCorrelation
    \/ PriorityBreakdown
    \/ CategoryBreakdown
    \/ HighRiskFeedback
    \/ PositiveOpportunities
    \/ GenerateSummaryReport
    \/ GetEmotionalTrendText

SpecBatch == InitBatch /\ [][NextBatch]_vars

-----------------------------------------------------------------------------
(* Specification SpecSingleton: threads calling get_sarcasm_detector()      *)
(*                                                                          *)
(* The function has no lock.  Between the test of the global, the           *)
(* construction, the store to the global and the read for the return, the   *)
(* interpreter may switch to another thread, so each is one step.           *)

\* Threads that call get_sarcasm_detector().
NumThreads == 3

\* Calls made by one thread.
MaxCalls == 2

Threads == 1..NumThreads

\* The k-th SarcasmDetector object constructed in the process.
Object(k) == TheDetector \o "#" \o ToString(k)

Caller(position, local, returned) ==
    [pc |-> position, local |-> local, returned |-> returned]

InitSingleton ==
    /\ pc = "threads"
    /\ callers = [t \in Threads |-> Caller("idle", None, << >>)]
    /\ constructed = 0
    /\ detector_instance = None
    /\ text = << >>
    /\ arg_sentiment = None
    /\ arg_emotion = None
    /\ sarcasm_result = None
    /\ sentiment_output = NoOutput
    /\ emotion_output = NoOutput
    /\ result = NoResult
    /\ predictions = << >>
    /\ df = NoBatch
    /\ last_query = NoQuery

\* Thread t moves to position p with local l and returned values r.
Move(t, p, l, r) ==
    /\ callers' = [callers EXCEPT ![t] = Caller(p, l, r)]
    /\ UNCHANGED << pc, text, arg_sentiment, arg_emotion, sarcasm_result, sentiment_output,
                    emotion_output, result, predictions, df, last_query >>

\* Thread t calls get_sarcasm_detector().
GetDetectorCall(t) ==
    /\ pc = "threads"
    /\ callers[t].pc = "idle"
    /\ Len(callers[t].returned) < MaxCalls
    /\ Move(t, "test", None, callers[t].returned)
    /\ UNCHANGED << detector_instance, constructed >>

\* if _detector_instance is None:
GetDetectorTest(t) ==
    /\ callers[t].pc = "test"
    /\ Move(t, IF detector_instance = None THEN "construct" ELSE "return",
            None, callers[t].returned)
    /\ UNCHANGED << detector_instance, constructed >>

\* SarcasmDetector(): the right-hand side of the assignment
GetDetectorConstruct(t) ==
    /\ callers[t].pc = "construct"
    /\ constructed' = constructed + 1
    /\ Move(t, "store", Object(constructed + 1), callers[t].returned)
    /\ UNCHANGED detector_instance

\* _detector_instance = <the new object>
GetDetectorStore(t) ==
    /\ callers[t].pc = "store"
    /\ detector_instance' = callers[t].local
    /\ Move(t, "return", None, callers[t].returned)
    /\ UNCHANGED constructed

\* return _detector_instance
GetDetectorReturn(t) ==
    /\ callers[t].pc = "return"
    /\ Move(t, "idle", None, Append(callers[t].returned, detector_instance))
    /\ UNCHANGED << detector_instance, constructed >>

NextSingleton ==
    \E t \in Threads :
        \/ GetDetectorCall(t)
        \/ GetDetectorTest(t)
        \/ GetDetectorConstruct(t)
        \/ GetDetectorStore(t)
        \/ GetDetectorReturn(t)

SpecSingleton == InitSingleton /\ [][NextSingleton]_vars

-----------------------------------------------------------------------------
(* Specification SpecApp: one call of app.format_prediction                 *)

\* result["text"] = text; result["clean_text"] = cleaned
WithTexts(prediction, toks, cleaned) ==
    [k \in (DOMAIN prediction) \cup { "text", "clean_text" } |->
        IF k = "text" THEN toks
        ELSE IF k = "clean_text" THEN cleaned
        ELSE prediction[k]]

\* app.format_prediction(text, model): the text is preprocessed, enriched,
\* and the original and the cleaned text are added; an exception of
\* predict_with_details propagates.  (The token highlights are not carried.)
format_prediction(toks, s_out, e_out) ==
    LET cleaned == preprocess_text(toks)
    IN  CHOOSE r \in { IF Raised(prediction) THEN prediction
                       ELSE WithTexts(prediction, toks, cleaned) :
                       prediction \in { predict_with_details(cleaned, s_out, e_out) } } : TRUE

\* The classifiers' outputs given to format_prediction.
AppSentimentOutputs == {
    Output("positive", SENTIMENT_CLASSES, << 10, 15, 75 >>),
    Output("negative", SENTIMENT_CLASSES, << 80, 10, 10 >>) }

AppEmotionOutputs == {
    Output("anger", << "anger", "fear", "joy" >>, << 75, 20, 5 >>),
    Output("joy", << "anger", "fear", "joy" >>, << 5, 15, 80 >>) }

InitApp ==
    /\ pc = "format"
    /\ text \in Texts \cup { OrderScenario }
    /\ sentiment_output \in AppSentimentOutputs
    /\ emotion_output \in AppEmotionOutputs
    /\ detector_instance = None
    /\ arg_sentiment = None
    /\ arg_emotion = None
    /\ sarcasm_result = None
    /\ result = NoResult
    /\ predictions = << >>
    /\ df = NoBatch
    /\ last_query = NoQuery
    /\ callers = NoCallers
    /\ constructed = 0

\* format_prediction(text, model)
FormatPrediction ==
    /\ pc = "format"
    /\ result' = format_prediction(text, sentiment_output, emotion_output)
    /\ detector_instance' = IF Raised(result') THEN detector_instance
                            ELSE get_sarcasm_detector(detector_instance)
    /\ pc' = "done"
    /\ UNCHANGED << text, arg_sentiment, arg_emotion, sarcasm_result, sentiment_output,
                    emotion_output, predictions, df, last_query, callers, constructed >>

NextApp == FormatPrediction

SpecApp == InitApp /\ [][NextApp]_vars

-----------------------------------------------------------------------------
(* Claims                                                                   *)

Done == pc = "done"

Returned == pc = "done" /\ result # NoResult /\ ~Raised(result)

\* The scores of the five detectors for the arguments of the detect call.
CallScores ==
    LET rs == DetectorResults(text, arg_sentiment, arg_emotion)
    IN  [i \in 1..5 |-> rs[i].score]

NumFired == Cardinality({ i \in 1..5 : CallScores[i] > 0 })

\* C1: for every call detect(text, sentiment, emotion), with scores the
\* non-zero scores of the five detectors: if there is none, is_sarcastic is
\* false and confidence is 0.0; otherwise confidence =
\* min(mean(scores) + min(0.15 * (len(scores) - 1), 0.30), 0.95) and
\* is_sarcastic holds exactly when confidence > 0.5.  (Stated without
\* division: n * (mean + bonus) = sum + n * bonus.)
C1_FusionFormula ==
    Done =>
        LET n == NumFired
            bonus == CASE n <= 1 -> 0 [] n = 2 -> 15 [] OTHER -> 30
            n_times_raw == (SumSeq(CallScores) + n * bonus) * UNIT
            conf == sarcasm_result.confidence
        IN  IF n = 0
            THEN ~sarcasm_result.is_sarcastic /\ conf = 0
            ELSE /\ (n_times_raw <= n * 95 * UNIT => n * conf = n_times_raw)
                 /\ (n_times_raw > n * 95 * UNIT => conf = 95 * UNIT)
                 /\ (sarcasm_result.is_sarcastic <=> conf > 50 * UNIT)

\* C1 witness: a call in which four detectors fired, the bonus is capped at
\* 0.30 and the confidence (0.925) stays below the 0.95 cap.
C1_Witness ==
    /\ Done
    /\ NumFired = 4
    /\ 2 * sarcasm_result.confidence = 185 * UNIT
    /\ sarcasm_result.is_sarcastic

\* C2: the sentiment override is one-directional: if the returned sentiment
\* differs from the classifier's raw sentiment, the raw sentiment was
\* "positive" and the returned one is "negative"; a raw negative or neutral
\* sentiment is never changed.
C2_OverrideOneDirectional ==
    Returned =>
        /\ (result.sentiment # sentiment_output.label =>
                sentiment_output.label = "positive" /\ result.sentiment = "negative")
        /\ (sentiment_output.label \in { "negative", "neutral" } =>
                result.sentiment = sentiment_output.label)

\* C2 witness: a raw negative sentiment with a priority emotion and sarcasm
\* confidence above 0.7 is returned unchanged.
C2_Witness ==
    /\ Returned
    /\ sentiment_output.label = "negative"
    /\ emotion_output.label = "anger"
    /\ result.sarcasm_detected
    /\ result.sarcasm_confidence > 70 * UNIT
    /\ result.sentiment = "negative"

\* C3: the returned sentiment is overridden to "negative" if and only if
\* sarcasm is detected with confidence strictly above 0.7 and the raw
\* sentiment is "positive" and the (predicted) emotion is one of anger,
\* frustration, annoyance, disappointment; in every other case the returned
\* sentiment equals the raw sentiment.
C3_OverrideExactly ==
    Returned =>
        LET fires == /\ result.sarcasm_detected
                     /\ result.sarcasm_confidence > 70 * UNIT
                     /\ sentiment_output.label = "positive"
                     /\ emotion_output.label \in
                            { "anger", "frustration", "annoyance", "disappointment" }
        IN  /\ (fires => result.sentiment = "negative")
            /\ (~fires => result.sentiment = sentiment_output.label)

\* C3 witness: an override took place.
C3_Witness ==
    /\ Returned
    /\ sentiment_output.label = "positive"
    /\ emotion_output.label = "anger"
    /\ result.sarcasm_confidence > 70 * UNIT
    /\ result.sentiment = "negative"

\* C4: in every returned record is_mixed_emotion is true iff secondary_emotion
\* is non-null, and iff secondary_confidence is non-null.
C4_MixedIffSecondary ==
    Returned =>
        /\ (result.is_mixed_emotion <=> result.secondary_emotion # None)
        /\ (result.is_mixed_emotion <=> result.secondary_confidence # NoNumber)

\* C4 witness: a returned record that is not mixed although a second class
\* exists, with both secondary fields null.
C4_Witness ==
    /\ Returned
    /\ Len(emotion_output.classes) > 1
    /\ ~result.is_mixed_emotion
    /\ result.secondary_emotion = None
    /\ result.secondary_confidence = NoNumber

\* The (class, probability) pairs the enrichment reads.
EmotionPairs == Zip(emotion_output.classes, emotion_output.probs)

\* C5: is_mixed_emotion = (a second class exists) and (highest probability -
\* second-highest probability) < 0.15, strictly; when mixed, secondary_emotion
\* is the class with the second-highest probability and secondary_confidence
\* is that probability.
C5_MixedRule ==
    Returned =>
        LET P == EmotionPairs
            n == Len(P)
        IN  \E i \in 1..n :
              /\ \A k \in 1..n : P[k].p <= P[i].p
              /\ IF n = 1
                 THEN ~result.is_mixed_emotion
                 ELSE \E j \in (1..n) \ { i } :
                        /\ \A k \in (1..n) \ { i } : P[k].p <= P[j].p
                        /\ (result.is_mixed_emotion <=> P[i].p - P[j].p < 15)
                        /\ (result.is_mixed_emotion =>
                               /\ result.secondary_emotion = P[j].class
                               /\ result.secondary_confidence = P[j].p)

\* C5 witness: joy 0.52 / gratitude 0.48 is mixed with secondary gratitude at
\* 0.48.
C5_Witness ==
    /\ Returned
    /\ emotion_output.classes = << "gratitude", "joy" >>
    /\ emotion_output.probs = << 48, 52 >>
    /\ result.is_mixed_emotion
    /\ result.secondary_emotion = "gratitude"
    /\ result.secondary_confidence = 48

IntensityTable(c) ==
    CASE 0 <= c /\ c < 55 -> "low"
      [] 55 <= c /\ c < 75 -> "medium"
      [] 75 <= c /\ c <= 100 -> "high"

\* C6: get_intensity is total and deterministic on [0,1]: low on [0, 0.55),
\* medium on [0.55, 0.75), high on [0.75, 1.0]; 0.55 gives medium, 0.75 gives
\* high and 1.0 gives high.  Checked on both confidences of every returned
\* record.
C6_IntensityBands ==
    Returned =>
        /\ result.emotion_confidence \in 0..100
        /\ result.sentiment_confidence \in 0..100
        /\ result.emotion_intensity = IntensityTable(result.emotion_confidence)
        /\ result.sentiment_intensity = IntensityTable(result.sentiment_confidence)

\* C6 witness: a confidence of exactly 0.55 is reported as medium.
C6_Witness ==
    /\ Returned
    /\ result.emotion_confidence = 55
    /\ result.emotion_intensity = "medium"

\* The probability vector has another length than the class list, or the
\* label is not in the class list.
Malformed(out) ==
    \/ Len(out.probs) # Len(out.classes)
    \/ ~InSeq(out.label, out.classes)

\* The output names a listed label whose probability can be read and is not
\* the maximum of the probability vector.
LabelNotMostProbable(out) ==
    /\ InSeq(out.label, out.classes)
    /\ IndexOf(out.label, out.classes) <= Len(out.probs)
    /\ \E i \in 1..Len(out.probs) : out.probs[i] > out.probs[IndexOf(out.label, out.classes)]

\* C7: predict_with_details rejects any classifier output in which the
\* predicted label's probability is not the maximum of the probability
\* vector: such an input ends in an error, never in an enriched record.
\* (Stated for outputs that are well formed otherwise.)
C7_RejectsLabelNotMax ==
    (/\ Done
     /\ ~Malformed(sentiment_output)
     /\ ~Malformed(emotion_output)
     /\ (LabelNotMostProbable(sentiment_output) \/ LabelNotMostProbable(emotion_output)))
        => Raised(result)

\* C8: a malformed classifier output (a probability vector whose length
\* differs from the class-label list, or a predicted label that is not in the
\* class-label list) always makes the call fail with an error; it is never
\* silently coerced into an enriched record.
C8_RejectsMalformed ==
    (Done /\ (Malformed(sentiment_output) \/ Malformed(emotion_output))) => Raised(result)


\* A query on an analyzer built from no prediction has been answered.
EmptyBatchAnswered(name) == predictions = << >> /\ last_query.name = name

\* C9: on an analyzer built from an empty prediction sequence,
\* generate_summary_report() completes without an exception and returns
\* total_feedback = 0, an empty mapping for every distribution and
\* dominant_sentiment = "unknown".
C9_EmptyBatchReport ==
    EmptyBatchAnswered("generate_summary_report") =>
        /\ last_query.raised = None
        /\ last_query.value.total_feedback = 0
        /\ last_query.value.dominant_sentiment = "unknown"
        /\ last_query.value.sentiment_breakdown = << >>
        /\ last_query.value.top_3_emotions = << >>
        /\ last_query.value.emotion_group_distribution = << >>

\* C10: on an analyzer built from an empty prediction sequence none of the
\* percentage and rate queries raises: sentiment_distribution(),
\* emotion_distribution() and emotion_group_distribution() return an empty
\* mapping, mixed_emotion_rate() and sarcasm_rate() return 0.0.
C10_EmptyBatchRates ==
    /\ \A name \in { "sentiment_distribution", "emotion_distribution",
                     "emotion_group_distribution" } :
          EmptyBatchAnswered(name) => (last_query.raised = None /\ last_query.value = << >>)
    /\ \A name \in { "mixed_emotion_rate", "sarcasm_rate" } :
          EmptyBatchAnswered(name) => (last_query.raised = None /\ last_query.value[1] = 0)

\* dominant_emotion() has been answered on a non-empty batch.
DominantAnswered ==
    /\ predictions # << >>
    /\ last_query.name = "dominant_emotion"
    /\ last_query.raised = None

\* The number of predictions with the emotion e.
EmotionCount(e) == Cardinality({ i \in 1..Len(predictions) : predictions[i].emotion = e })

\* The first position of the emotion e in the batch.
FirstPosition(e) ==
    CHOOSE i \in 1..Len(predictions) :
        /\ predictions[i].emotion = e
        /\ \A j \in 1..(i - 1) : predictions[j].emotion # e

\* The emotions of the batch with the largest number of occurrences.
MostFrequent ==
    { predictions[i].emotion : i \in { k \in 1..Len(predictions) :
        \A j \in 1..Len(predictions) :
            EmotionCount(predictions[j].emotion) <= EmotionCount(predictions[k].emotion) } }

\* C11: dominant_emotion() returns an emotion with the largest number of
\* occurrences in the batch and, when several emotions share that number,
\* the one that occurs first in the input sequence.
C11_DominantFirstOnTie ==
    DominantAnswered =>
        /\ last_query.value \in MostFrequent
        /\ \A e \in MostFrequent : FirstPosition(last_query.value) <= FirstPosition(e)

\* C11 divergence: a tie between joy (first in the batch) and anger is answered "anger".
C11_TieAnswered ==
    /\ DominantAnswered
    /\ predictions[1].emotion = "joy"
    /\ MostFrequent = { "anger", "joy" }
    /\ last_query.value = "anger"

\* The sum of the numerators of the percentages f[k], k in keys.
RECURSIVE SumShares(_, _)
SumShares(f, keys) ==
    IF keys = {} THEN 0
    ELSE LET k == CHOOSE x \in keys : TRUE
         IN  f[k][1] + SumShares(f, keys \ { k })

\* The answer to the query called name is the distribution of Label over a
\* non-empty batch: its keys are the observed labels, each value is
\* count / total * 100, and the values sum to 100.
IsDistribution(name, Label(_)) ==
    (predictions # << >> /\ last_query.name = name) =>
        LET total == Len(predictions)
            observed == { Label(predictions[i]) : i \in 1..total }
            dist == last_query.value
        IN  /\ last_query.raised = None
            /\ DOMAIN dist = observed
            /\ \A k \in observed :
                  dist[k] = << 100 * Cardinality({ i \in 1..total : Label(predictions[i]) = k }),
                               total >>
            /\ SumShares(dist, observed) = 100 * total

SentimentOf(p) == p.sentiment

EmotionOf(p) == p.emotion

\* positive / negative / neutral_cognitive / unknown, as config.EMOTION_GROUPS
\* lists the emotions.
GroupOf(p) ==
    CASE p.emotion \in { "joy", "satisfaction", "trust", "excitement", "gratitude", "relief" } ->
             "positive"
      [] p.emotion \in { "anger", "frustration", "disappointment", "sadness", "fear",
                         "anxiety", "confusion", "annoyance", "regret" } -> "negative"
      [] p.emotion \in { "neutral", "curiosity", "surprise" } -> "neutral_cognitive"
      [] OTHER -> "unknown"

\* C12: for any non-empty batch, sentiment_distribution(),
\* emotion_distribution() and emotion_group_distribution() have exactly the
\* observed labels (for groups: the groups the emotions map to) as keys, each
\* value is count(label) / total * 100, and the values sum to 100.
C12_DistributionsSumTo100 ==
    /\ IsDistribution("sentiment_distribution", SentimentOf)
    /\ IsDistribution("emotion_distribution", EmotionOf)
    /\ IsDistribution("emotion_group_distribution", GroupOf)

\* C12 witness: three predictions in two emotion groups, one of them negative.
C12_Witness ==
    /\ Len(predictions) = 3
    /\ last_query.name = "emotion_group_distribution"
    /\ last_query.raised = None
    /\ DOMAIN last_query.value = { "positive", "negative" }
    /\ last_query.value["negative"] = << 100, 3 >>

\* The item is high-risk for the threshold t (in hundredths).
IsHighRisk(p, t) ==
    /\ p.emotion \in { "anger", "frustration", "disappointment", "regret" }
    /\ p.emotion_confidence > t

\* The four fields of an item that high_risk_feedback returns.
RiskView(p) ==
    [text |-> p.text, emotion |-> p.emotion, emotion_confidence |-> p.emotion_confidence,
     sentiment |-> p.sentiment]

\* The high-risk items of the batch for the threshold t, in input order.
RECURSIVE HighRiskOf(_, _)
HighRiskOf(preds, t) ==
    IF preds = << >> THEN << >>
    ELSE (IF IsHighRisk(Head(preds), t) THEN << RiskView(Head(preds)) >> ELSE << >>)
         \o HighRiskOf(Tail(preds), t)

SarcasmView(p) ==
    [text |-> p.text, emotion |-> p.emotion, sentiment |-> p.sentiment,
     sarcasm_confidence |-> p.sarcasm_confidence]

\* The rows sarcastic_feedback(t) returns on the analyzer.
SarcasticRows(t) == sarcastic_feedback(df, t).value.rows

\* s is a subsequence of t (Python's list order kept).
RECURSIVE IsSubSeq(_, _)
IsSubSeq(s, t) ==
    IF s = << >> THEN TRUE
    ELSE IF t = << >> THEN FALSE
    ELSE IF Head(s) = Head(t) THEN IsSubSeq(Tail(s), Tail(t))
    ELSE IsSubSeq(s, Tail(t))

\* C14: every item returned by sarcastic_feedback(threshold) has sarcasm
\* detected and sarcasm_confidence >= threshold, and for thresholds t1 <= t2
\* the items returned for t2 are among those returned for t1, so raising the
\* threshold never increases the count.
C14_SarcasticFeedbackMonotone ==
    /\ last_query.name = "sarcastic_feedback" =>
          /\ last_query.raised = None
          /\ \A i \in 1..Len(last_query.value.rows) :
                /\ last_query.value.rows[i].sarcasm_confidence >= last_query.args[1] * UNIT
                /\ \E k \in 1..Len(predictions) :
                      /\ "sarcasm_detected" \in DOMAIN predictions[k]
                      /\ predictions[k].sarcasm_detected
                      /\ SarcasmView(predictions[k]) = last_query.value.rows[i]
    /\ pc = "batch" =>
          \A t1, t2 \in Thresholds :
              t1 <= t2 =>
                  /\ ~Raised(sarcastic_feedback(df, t1))
                  /\ ~Raised(sarcastic_feedback(df, t2))
                  /\ IsSubSeq(SarcasticRows(t2), SarcasticRows(t1))
                  /\ Len(SarcasticRows(t2)) <= Len(SarcasticRows(t1))

\* C14 witness: the threshold 0.70 returns two of three sarcastic items,
\* one of them with confidence 0.70 exactly, and 0.75 returns only one.
C14_Witness ==
    /\ last_query.name = "sarcastic_feedback"
    /\ last_query.args = << 70 >>
    /\ Len(predictions) = 3
    /\ Len(last_query.value.rows) = 2
    /\ \E i \in 1..2 : last_query.value.rows[i].sarcasm_confidence = 70 * UNIT
    /\ Len(SarcasticRows(50)) = 3
    /\ Len(SarcasticRows(75)) = 1

\* sarcasm_sentiment_correlation() has been answered.
CorrelationAnswered == last_query.name = "sarcasm_sentiment_correlation"

\* The items of the batch carry the sarcasm fields.
CarriesSarcasm ==
    predictions # << >> /\ \A i \in 1..Len(predictions) : "sarcasm_detected" \in DOMAIN predictions[i]

\* The answer gives, for each of positive, negative and neutral, the
\* percentage of the items with that sentiment that have sarcasm detected,
\* and 0.0 for a sentiment with no item.
CorrelationOverThreeLabels ==
    /\ last_query.raised = None
    /\ DOMAIN last_query.value = { "positive", "negative", "neutral" }
    /\ \A s \in { "positive", "negative", "neutral" } :
          LET with == { i \in 1..Len(predictions) : predictions[i].sentiment = s }
              sarcastic == { i \in with : "sarcasm_detected" \in DOMAIN predictions[i]
                                          /\ predictions[i].sarcasm_detected }
          IN  last_query.value[s] =
                  IF with = {} THEN << 0, 1 >>
                  ELSE << 100 * Cardinality(sarcastic), Cardinality(with) >>

\* C15: for every batch, with or without sarcasm fields on its items,
\* sarcasm_sentiment_correlation() returns a value for each of the three
\* sentiment labels: the percentage of the items with that sentiment that
\* have sarcasm detected, and 0.0 for a sentiment with no item.
C15_CorrelationForEveryBatch == CorrelationAnswered => CorrelationOverThreeLabels

\* C15 as the code has it: the three values are returned for a batch whose
\* items carry the sarcasm fields; for a batch without them (an empty batch
\* included) the answer is the empty mapping.
C15_CorrelationWhenSarcasmFields ==
    CorrelationAnswered =>
        IF CarriesSarcasm THEN CorrelationOverThreeLabels
        ELSE last_query.raised = None /\ last_query.value = << >>

\* C15 witness: two negative items, one of them sarcastic, and a neutral
\* item: 50% for negative, 0% for neutral and 0.0 for positive (no item).
C15_Witness ==
    /\ CorrelationAnswered
    /\ CarriesSarcasm
    /\ Len(predictions) = 3
    /\ last_query.value["negative"] = << 100, 2 >>
    /\ last_query.value["neutral"] = << 0, 1 >>
    /\ last_query.value["positive"] = << 0, 1 >>

\* predict_with_details has returned for the order text with the classifier
\* outputs positive / anger.
OrderScenarioEnriched ==
    /\ Returned
    /\ text = OrderScenario
    /\ sentiment_output.label = "positive"
    /\ emotion_output.label = "anger"

\* The returned sarcasm indicators include one of the given kinds.
Signalled(kinds) ==
    \E i \in 1..Len(result.sarcasm_indicators) : result.sarcasm_indicators[i].kind \in kinds

PhraseSignal == Signalled({ "sarcastic phrase" })

ContrastSignal ==
    Signalled({ "contrast: positive words with negative context", "intensified positive" })

MismatchSignal == Signalled({ "polarity mismatch: positive sentiment with emotion" })

\* C16: for the text "Great job! You've managed to mess up my order three
\* times in a row." enriched with the classifier outputs positive / anger,
\* sarcasm is detected with both the known-phrase signal and the contrast
\* signal firing, the sarcasm confidence is greater than 0.7 and the final
\* sentiment is overridden to negative.
C16_OrderScenarioPhraseAndContrast ==
    OrderScenarioEnriched =>
        /\ result.sarcasm_detected
        /\ PhraseSignal
        /\ ContrastSignal
        /\ result.sarcasm_confidence > 70 * UNIT
        /\ result.sentiment = "negative"

\* C16 as the code has it: the known-phrase signal ("great job") and the
\* polarity-mismatch signal (positive sentiment with anger) fire, the
\* contrast signal does not (the text has no negative-context word and no
\* intensified positive); the confidence is 0.825 and the final sentiment is
\* overridden to negative.
C16_OrderScenarioPhraseAndMismatch ==
    OrderScenarioEnriched =>
        /\ result.sarcasm_detected
        /\ PhraseSignal
        /\ MismatchSignal
        /\ ~ContrastSignal
        /\ 2 * result.sarcasm_confidence = 165 * UNIT
        /\ result.sarcasm_confidence > 70 * UNIT
        /\ result.sentiment = "negative"

\* C16 witness: the order text has been enriched and its sentiment
\* overridden.
C16_Witness ==
    /\ OrderScenarioEnriched
    /\ Len(result.sarcasm_indicators) = 2
    /\ result.sentiment = "negative"

\* detect(text) was called without sentiment and emotion.
DetectedTextOnly == Done /\ arg_sentiment = None /\ arg_emotion = None

\* The call returned the zero-signal result.
ZeroSignal ==
    /\ ~sarcasm_result.is_sarcastic
    /\ sarcasm_result.confidence = 0
    /\ sarcasm_result.indicators = << >>

HasListedPhrase(toks) ==
    \E k \in 1..Len(SARCASTIC_PHRASES) : Search(SARCASTIC_PHRASES[k], Lower(toks))

HasNegativeWord(toks) ==
    \E k \in 1..Len(NEGATIVE_CONTEXT) : Search(NEGATIVE_CONTEXT[k], Lower(toks))

HasPositiveWord(toks) == \E i \in 1..Len(toks) : InSeq(LowerTok(toks[i]), POSITIVE_SURFACE)

\* An intensifier, then whitespace only, then a positive-surface word.
HasIntensifiedPositive(toks) ==
    \E i \in 1..Len(toks) : \E j \in (i + 2)..Len(toks) :
        /\ InSeq(LowerTok(toks[i]), SARCASTIC_INTENSIFIERS)
        /\ \A k \in (i + 1)..(j - 1) : toks[k] = SP
        /\ InSeq(LowerTok(toks[j]), POSITIVE_SURFACE)

\* Two adjacent punctuation marks out of ! and ?.
HasRepeatedMarks(toks) ==
    \E i \in 1..(Len(toks) - 1) : toks[i] \in { "!", "?" } /\ toks[i + 1] \in { "!", "?" }

\* A positive-surface word between two quote characters.
HasQuotedPositive(toks) ==
    \E i \in 1..(Len(toks) - 2) :
        /\ toks[i] \in { SQ, DQ }
        /\ InSeq(LowerTok(toks[i + 1]), POSITIVE_SURFACE)
        /\ toks[i + 2] \in { SQ, DQ }

\* A text without any of the cues the detectors look for.
NoCue(toks) ==
    /\ ~HasListedPhrase(toks)
    /\ ~HasNegativeWord(toks)
    /\ ~HasIntensifiedPositive(toks)
    /\ ~HasRepeatedMarks(toks)
    /\ ~HasQuotedPositive(toks)

\* Direct negative text: a negative-context word and no positive-surface
\* word, listed phrase or repeated mark.
DirectNegative(toks) ==
    /\ HasNegativeWord(toks)
    /\ ~HasPositiveWord(toks)
    /\ ~HasListedPhrase(toks)
    /\ ~HasRepeatedMarks(toks)

\* "Thank you so much! This is amazing!"
ThankYouText == CHOOSE t \in GenuineCases : t[1] = "Thank"

\* "I love the new features, great work!"
LoveFeaturesText == CHOOSE t \in GenuineCases : t[3] = "love"

\* "This is terrible and I want a refund"
RefundText == CHOOSE t \in GenuineCases : t[5] = "terrible"

\* C17: detect(text) called without sentiment and emotion returns
\* is_sarcastic = false and confidence = 0.0 for every text in which no
\* detector fires: genuine praise with positive-surface words but no listed
\* phrase, negative-context word, intensified positive, repeated !/? or
\* quoted positive word (the two praise texts of the test table are such
\* texts), and direct negative text without positive-surface words.
C17_NoCueNoSarcasm ==
    /\ (DetectedTextOnly /\ (NoCue(text) \/ DirectNegative(text))) => ZeroSignal
    /\ (text \in { ThankYouText, LoveFeaturesText }) => (NoCue(text) /\ HasPositiveWord(text))
    /\ (text = RefundText) => DirectNegative(text)

\* C17 witness: detect("Thank you so much! This is amazing!") has returned
\* the zero-signal result.
C17_Witness ==
    /\ DetectedTextOnly
    /\ text = ThankYouText
    /\ HasPositiveWord(text)
    /\ ZeroSignal

\* "Well, that was interesting..."
InterestingText == CHOOSE t \in BorderlineCases : t[1] = "Well"

\* C18: detect(text) called without sentiment and emotion returns
\* is_sarcastic = true for every text that the test table labels sarcastic:
\* the five clearly sarcastic texts, in which a single cue fires, and the
\* borderline texts "Well, that was interesting..." and "Perfect timing,
\* just perfect".
C18_TestTableSarcastic ==
    (DetectedTextOnly /\ text \in SarcasticCases \cup BorderlineCases) =>
        sarcasm_result.is_sarcastic

\* C18 divergence: detect("Well, that was interesting...") has returned the
\* zero-signal result.
C18_InterestingNotFlagged ==
    /\ DetectedTextOnly
    /\ text = InterestingText
    /\ ZeroSignal

\* The text is empty or consists of whitespace only.
BlankText == \A i \in 1..Len(text) : text[i] = SP

\* C19: detect never fails and, for empty or whitespace-only text, returns
\* the zero-signal result (is_sarcastic = false, confidence = 0.0, no
\* indicators) for every value of the optional sentiment and emotion
\* arguments.
C19_BlankTextZeroSignal == (Done /\ BlankText) => ZeroSignal

\* C19 divergence: detect("", "positive", "anger") has returned
\* is_sarcastic = true with confidence 0.6 and the polarity-mismatch
\* indicator.
C19_BlankTextFlagged ==
    /\ Done
    /\ text = << >>
    /\ arg_sentiment = "positive"
    /\ arg_emotion = "anger"
    /\ sarcasm_result.is_sarcastic
    /\ sarcasm_result.confidence = 60 * UNIT
    /\ Len(sarcasm_result.indicators) = 1

\* The table of an analyzer freshly constructed over the same predictions.
FreshTable == DataFrame(predictions)

\* Every query answers on the analyzer as it does on a fresh one.
SameAnswers ==
    /\ sentiment_distribution(df) = sentiment_distribution(FreshTable)
    /\ emotion_distribution(df) = emotion_distribution(FreshTable)
    /\ dominant_emotion(df) = dominant_emotion(FreshTable)
    /\ average_confidence(df) = average_confidence(FreshTable)
    /\ intensity_breakdown(df) = intensity_breakdown(FreshTable)
    /\ emotion_group_distribution(df) = emotion_group_distribution(FreshTable)
    /\ mixed_emotion_rate(df) = mixed_emotion_rate(FreshTable)
    /\ sarcasm_rate(df) = sarcasm_rate(FreshTable)
    /\ sarcasm_sentiment_correlation(df) = sarcasm_sentiment_correlation(FreshTable)
    /\ \A t \in Thresholds :
          /\ sarcastic_feedback(df, t) = sarcastic_feedback(FreshTable, t)
          /\ high_risk_feedback(df, t) = high_risk_feedback(FreshTable, t)
          /\ positive_opportunities(df, t) = positive_opportunities(FreshTable, t)
    /\ Dominants(df) = Dominants(FreshTable)
    /\ Tops(df) = Tops(FreshTable)
    /\ \A dominant \in Dominants(df) : \A top \in Tops(df) :
          LET now == generate_summary_report(predictions, df, dominant, top)
              fresh == generate_summary_report(predictions, FreshTable, dominant, top)
          IN  now.raised = fresh.raised /\ now.value = fresh.value

\* C20: the queries are pure: no query modifies the analyzer's stored state
\* (its prediction list and its table), so after any sequence of queries,
\* emotion_group_distribution and generate_summary_report included, every
\* query returns what it returns on a freshly constructed analyzer.
C20_QueriesPure ==
    pc = "batch" => (df = FreshTable /\ SameAnswers)

\* C20 divergence: after emotion_group_distribution() the table has a
\* column that the table of a fresh analyzer has not.
C20_TableChanged ==
    /\ last_query.name = "emotion_group_distribution"
    /\ predictions # << >>
    /\ "emotion_group" \in df.columns
    /\ "emotion_group" \notin FreshTable.columns

\* The emotion labels of config.EMOTION_GROUPS, and one that is not listed.
EmotionLabels ==
    UNION { EMOTION_GROUPS[i].emotions : i \in 1..Len(EMOTION_GROUPS) } \cup { "unlisted" }

MismatchKind == "polarity mismatch: positive sentiment with emotion"

\* The number of polarity-mismatch indicators of the call's result.
MismatchIndicators ==
    Cardinality({ i \in 1..Len(sarcasm_result.indicators) :
                    sarcasm_result.indicators[i].kind = MismatchKind })

\* Both labels were supplied, the sentiment is positive and the emotion is
\* one of the eight negative emotions.
MismatchExpected ==
    /\ arg_sentiment # None /\ arg_sentiment # ""
    /\ arg_emotion # None /\ arg_emotion # ""
    /\ arg_sentiment = "positive"
    /\ arg_emotion \in { "anger", "frustration", "disappointment", "sadness",
                         "fear", "anxiety", "annoyance", "regret" }

\* The fired scores of the four text detectors for the call's text.
TextScores == FiredScores(SubSeq(DetectorResults(text, None, None), 1, 4))

\* C21: the polarity-mismatch detector contributes to detect's score list
\* only when both sentiment and emotion are supplied; it then contributes
\* score 0.60 with exactly one indicator if and only if the sentiment is
\* "positive" and the emotion is one of anger, frustration, disappointment,
\* sadness, fear, anxiety, annoyance, regret, and nothing for a negative or
\* neutral sentiment or any other emotion.  On the call: the confidence is
\* the fusion of the text scores followed by 0.60 exactly in that case, of
\* the text scores alone otherwise, and the result then carries exactly one
\* mismatch indicator, the last one, otherwise none.  On the detector: over
\* every sentiment and every emotion label.
C21_MismatchContribution ==
    /\ Done =>
         /\ sarcasm_result.confidence =
                Fuse(TextScores \o (IF MismatchExpected THEN << 60 >> ELSE << >>)).confidence
         /\ MismatchIndicators = (IF MismatchExpected THEN 1 ELSE 0)
         /\ MismatchExpected =>
                sarcasm_result.indicators[Len(sarcasm_result.indicators)] =
                    Indicator(MismatchKind, << << arg_emotion >> >>)
    /\ \A s \in { "positive", "negative", "neutral" } : \A e \in EmotionLabels :
         LET r == _detect_polarity_mismatch(s, e)
         IN  IF s = "positive"
                /\ e \in { "anger", "frustration", "disappointment", "sadness",
                           "fear", "anxiety", "annoyance", "regret" }
             THEN r.score = 60 /\ Len(r.indicators) = 1
             ELSE r.score = 0 /\ r.indicators = << >>

\* C21 witness: a call with a positive sentiment and sadness on a text with
\* a listed phrase: two scores, the mismatch indicator behind the phrase's.
C21_Witness ==
    /\ Done
    /\ arg_sentiment = "positive" /\ arg_emotion = "sadness"
    /\ text = << "Great", SP, "job" >>
    /\ Len(sarcasm_result.indicators) = 2
    /\ MismatchIndicators = 1
    /\ sarcasm_result.confidence = 4950

ReinterpretedKind == "sarcasm detection re-evaluated"

AccountsKind == "sentiment interpretation accounts for the detected sarcasm"

\* The positions of the closing sentences in the returned explanation.
Closings ==
    { i \in 1..Len(result.explanation) :
        result.explanation[i].kind \in { ReinterpretedKind, AccountsKind } }

\* The returned sentiment is not the classifier's: an override occurred.
Overridden == result.sentiment # sentiment_output.label

\* C22: when sarcasm is detected, the explanation ends in exactly one of two
\* closing sentences: the "reinterpreted from <original> to <new>" sentence
\* if and only if a sentiment override occurred in this enrichment, and
\* otherwise the "sentiment interpretation accounts for the detected
\* sarcasm" sentence; the pre-override sentiment reaches the explanation
\* only when an override occurred.  When sarcasm is not detected neither
\* sentence appears.
C22_ClosingSentence ==
    Returned =>
        LET e == result.explanation
        IN  /\ result.sarcasm_detected =>
                /\ Closings = { Len(e) }
                /\ Overridden =>
                       /\ e[Len(e)].kind = ReinterpretedKind
                       /\ e[Len(e)].args = << sentiment_output.label, result.sentiment >>
                /\ ~Overridden =>
                       /\ e[Len(e)].kind = AccountsKind
                       /\ e[Len(e)].args = << result.sentiment >>
            /\ ~result.sarcasm_detected => Closings = {}
            /\ e = generate_explanation(
                       result.sentiment, emotion_output.label, result.emotion_confidence,
                       [is_sarcastic |-> result.sarcasm_detected,
                        confidence |-> result.sarcasm_confidence,
                        indicators |-> result.sarcasm_indicators],
                       IF Overridden THEN sentiment_output.label ELSE None)

\* C22 witness: an overridden enrichment whose explanation ends in the
\* reinterpretation from positive to negative.
C22_Witness ==
    /\ Returned
    /\ result.sarcasm_detected
    /\ Overridden
    /\ result.explanation[Len(result.explanation)] =
           Sentence(ReinterpretedKind, << "positive", "negative" >>, << >>)

\* The highest probability of the emotion classifier's output.
HighestEmotionProbability ==
    CHOOSE p \in { emotion_output.probs[i] : i \in 1..Len(emotion_output.probs) } :
        \A i \in 1..Len(emotion_output.probs) : emotion_output.probs[i] <= p

\* The record computed from the label e: its confidence, the detector call,
\* the override test, the business insight and the explanation.
ComputedFrom(e) ==
    LET sarcasm == detect(text, sentiment_output.label, e)
        sentiment == Reinterpret(sentiment_output.label, e, sarcasm)
    IN  /\ InSeq(e, emotion_output.classes)
        /\ result.emotion_confidence = emotion_output.probs[IndexOf(e, emotion_output.classes)]
        /\ result.sarcasm_detected = sarcasm.is_sarcastic
        /\ result.sarcasm_confidence = sarcasm.confidence
        /\ result.sarcasm_indicators = sarcasm.indicators
        /\ result.sentiment = sentiment
        /\ result.business_insight = get_business_insight(e)
        /\ result.explanation =
               generate_explanation(sentiment, e, result.emotion_confidence, sarcasm,
                                    IF sentiment # sentiment_output.label
                                    THEN sentiment_output.label ELSE None)

\* C23: in every record returned by predict_with_details, the reported
\* emotion is the top element of the probability-descending sort and is the
\* label from which emotion_confidence, the sarcasm-detector call, the
\* override test, the business insight and the explanation were computed
\* (also when two classes tie for the highest probability), and
\* emotion_confidence equals the highest emotion probability.
C23_ReportedEmotionIsTheLabelUsed ==
    Returned =>
        /\ result.emotion = SortedDesc(EmotionPairs)[1].class
        /\ ComputedFrom(result.emotion)
        /\ result.emotion_confidence = HighestEmotionProbability

\* C23 divergence: the classifier's label "fear" ties with "anger" for the
\* highest probability; the record reports anger, the top of the sort, with
\* the business insight of fear.
C23_TieReportsOtherLabel ==
    /\ Returned
    /\ Consistent(emotion_output)
    /\ emotion_output.label = "fear"
    /\ emotion_output.probs = << 40, 40, 20 >>
    /\ result.emotion = "anger"
    /\ result.emotion_confidence = HighestEmotionProbability
    /\ result.business_insight = get_business_insight("fear")
    /\ result.business_insight # get_business_insight("anger")

\* Every value returned so far by a call of get_sarcasm_detector().
ReturnedInstances ==
    UNION { { callers[t].returned[i] : i \in 1..Len(callers[t].returned) } :
            t \in DOMAIN callers }

\* C24: get_sarcasm_detector() constructs the SarcasmDetector at most once
\* per process, and every call returns that one instance, also when the
\* first calls are made by several threads whose check-then-create steps
\* interleave.
C24_ConstructedOnce ==
    pc = "threads" =>
        /\ constructed <= 1
        /\ Cardinality(ReturnedInstances) <= 1

\* C24 divergence: two threads tested the global before either stored its
\* object; both constructed one, and two calls returned different objects.
C24_TwoInstances ==
    /\ pc = "threads"
    /\ constructed = 2
    /\ callers[1].returned = << Object(1) >>
    /\ callers[2].returned = << Object(2) >>

\* The call's result as the one item of a batch.
DetectedItem ==
    [text |-> text, emotion |-> arg_emotion, sentiment |-> arg_sentiment,
     sarcasm_detected |-> sarcasm_result.is_sarcastic,
     sarcasm_confidence |-> sarcasm_result.confidence]

\* sarcastic_feedback(t) on that batch returns the item.
FeedbackReturnsItem(t) ==
    LET r == sarcastic_feedback(DataFrame(<< DetectedItem >>), t)
    IN  /\ ~Raised(r)
        /\ Len(r.value.rows) = 1
        /\ r.value.rows[1].sarcasm_confidence = sarcasm_result.confidence

\* Thresholds up to 0.55, in hundredths.
LowThresholds == { 0, 25, 50, 55 }

\* At least one of the five detectors fired for the call's arguments.
SomeDetectorFired ==
    FiredScores(DetectorResults(text, arg_sentiment, arg_emotion)) # << >>

\* C25: for every detect result, is_sarcastic is true if and only if at
\* least one detector fired, if and only if the indicators list is not
\* empty; the confidence is exactly 0.0 or lies in [0.55, 0.95]; so the
\* "sarcastic with zero indicators" explanation is never produced, and
\* sarcastic_feedback(t) returns every sarcasm-detected item for any
\* t <= 0.55.
C25_SarcasticIffFired ==
    Done =>
        /\ sarcasm_result.is_sarcastic <=> SomeDetectorFired
        /\ sarcasm_result.is_sarcastic <=> (sarcasm_result.indicators # << >>)
        /\ \/ sarcasm_result.confidence = 0
           \/ /\ 55 * UNIT <= sarcasm_result.confidence
              /\ sarcasm_result.confidence <= 95 * UNIT
        /\ sarcasm_result.explanation.head # "Low sarcasm signals detected."
        /\ sarcasm_result.is_sarcastic => \A t \in LowThresholds : FeedbackReturnsItem(t)

\* C25 witness: repeated exclamation marks alone: one detector, confidence
\* 0.55 exactly, one indicator, returned at the threshold 0.55 and not at 0.60.
C25_Witness ==
    /\ Done
    /\ text = << "!", "!" >>
    /\ arg_sentiment = None
    /\ SomeDetectorFired
    /\ sarcasm_result.is_sarcastic
    /\ sarcasm_result.confidence = 55 * UNIT
    /\ Len(sarcasm_result.indicators) = 1
    /\ FeedbackReturnsItem(55)
    /\ ~FeedbackReturnsItem(60)

\* The four emotions for which the sentiment may be overridden.
OverrideEmotions == { "anger", "frustration", "annoyance", "disappointment" }

\* The classifiers' labels are positive and an override emotion.
PositiveWithOverrideEmotion ==
    /\ Returned
    /\ sentiment_output.label = "positive"
    /\ emotion_output.label \in OverrideEmotions

\* For the call's text, a positive sentiment and the emotion e: the override
\* happens exactly when a text detector fires; the mismatch alone gives 0.60.
OverrideIffTextSignal(e) ==
    LET sarcasm == detect(text, "positive", e)
        sentiment == Reinterpret("positive", e, sarcasm)
    IN  /\ (sentiment = "negative") <=> (TextScores # << >>)
        /\ TextScores = << >> =>
               sarcasm.is_sarcastic /\ sarcasm.confidence = 60 * UNIT
        /\ TextScores # << >> => sarcasm.confidence > 70 * UNIT

\* C26: in predict_with_details, when the raw sentiment is "positive" and
\* the emotion is one of anger, frustration, annoyance, disappointment, the
\* sentiment is overridden to negative if and only if at least one
\* text-based detector (phrase, contrast, punctuation, quoted) fires: the
\* polarity-mismatch signal alone gives confidence 0.60 and no override,
\* while mismatch plus any text signal gives confidence above 0.7.
C26_OverrideIffTextSignal ==
    PositiveWithOverrideEmotion =>
        /\ (result.sentiment = "negative") <=> (TextScores # << >>)
        /\ TextScores = << >> =>
               /\ result.sarcasm_detected
               /\ result.sarcasm_confidence = 60 * UNIT
               /\ result.sentiment = "positive"
        /\ TextScores # << >> => result.sarcasm_confidence > 70 * UNIT
        /\ \A e \in OverrideEmotions : OverrideIffTextSignal(e)

\* C26 witness: "!!" with positive and anger: the weakest text signal with
\* the mismatch gives (0.55 + 0.60) / 2 + 0.15 = 0.725, and the override.
C26_Witness ==
    /\ PositiveWithOverrideEmotion
    /\ text = << "!", "!" >>
    /\ TextScores = << 55 >>
    /\ result.sarcasm_confidence = 4350
    /\ result.sentiment = "negative"

\* The classifiers' labels are positive and one of the eight negative
\* emotions of the mismatch detector.
PositiveWithNegativeEmotion ==
    /\ Returned
    /\ sentiment_output.label = "positive"
    /\ emotion_output.label \in { "anger", "frustration", "disappointment", "sadness",
                                  "fear", "anxiety", "annoyance", "regret" }

\* C27: for every text, the empty one included, predict_with_details
\* reports sarcasm_detected = true with sarcasm_confidence >= 0.60 whenever
\* the classifier's raw sentiment is "positive" and the emotion is one of
\* anger, frustration, disappointment, sadness, fear, anxiety, annoyance,
\* regret: the detector is always called with the pre-override sentiment
\* and the predicted emotion, and its mismatch check fires for each of them.
C27_MismatchAlwaysFlagged ==
    /\ PositiveWithNegativeEmotion =>
         /\ result.sarcasm_detected
         /\ result.sarcasm_confidence >= 60 * UNIT
         /\ \E i \in 1..Len(result.sarcasm_indicators) :
                result.sarcasm_indicators[i] =
                    Indicator(MismatchKind, << << emotion_output.label >> >>)
    /\ \A e \in { "anger", "frustration", "disappointment", "sadness",
                  "fear", "anxiety", "annoyance", "regret" } :
         _detect_polarity_mismatch("positive", e).score = 60

\* C27 witness: the empty text with positive and fear: flagged with
\* confidence 0.60 and the sentiment kept.
C27_Witness ==
    /\ PositiveWithNegativeEmotion
    /\ text = << >>
    /\ emotion_output.label = "fear"
    /\ result.sarcasm_detected
    /\ result.sarcasm_confidence = 60 * UNIT
    /\ result.sentiment = "positive"

\* The fields of a record other than the sentiment label and the explanation.
FrameFields ==
    { "sentiment_confidence", "sentiment_intensity", "emotion", "emotion_confidence",
      "emotion_intensity", "secondary_emotion", "secondary_confidence", "is_mixed_emotion",
      "sarcasm_detected", "sarcasm_confidence", "sarcasm_indicators", "business_insight" }

\* The record of the same enrichment with the classifier's sentiment kept:
\* every step of predict_with_details but the override.
WithoutOverride ==
    LET sentiment == sentiment_output.label
        emotion == emotion_output.label
        sentiment_conf == sentiment_output.probs[IndexOf(sentiment, sentiment_output.classes)]
        emotion_conf == emotion_output.probs[IndexOf(emotion, emotion_output.classes)]
        sorted == SortedDesc(EmotionPairs)
        gap == IF Len(sorted) > 1 THEN sorted[1].p - sorted[2].p ELSE 100
        is_mixed == Len(sorted) > 1 /\ gap < 15
        sarcasm == detect(text, sentiment, emotion)
    IN  [sentiment |-> sentiment,
         sentiment_confidence |-> sentiment_conf,
         sentiment_intensity |-> get_intensity(sentiment_conf),
         emotion |-> sorted[1].class,
         emotion_confidence |-> emotion_conf,
         emotion_intensity |-> get_intensity(emotion_conf),
         secondary_emotion |-> IF is_mixed THEN sorted[2].class ELSE None,
         secondary_confidence |-> IF is_mixed THEN sorted[2].p ELSE NoNumber,
         is_mixed_emotion |-> is_mixed,
         sarcasm_detected |-> sarcasm.is_sarcastic,
         sarcasm_confidence |-> sarcasm.confidence,
         sarcasm_indicators |-> sarcasm.indicators,
         business_insight |-> get_business_insight(emotion)]

\* C28: a sentiment override changes only the sentiment label (and the
\* explanation text): sentiment_confidence and sentiment_intensity remain
\* the values computed from the classifier's raw positive label, and
\* emotion, emotion_confidence, emotion_intensity, the mixed-emotion fields,
\* the sarcasm fields and business_insight are what they would be without
\* the override.
C28_OverrideChangesOnlySentiment ==
    (Returned /\ Overridden) =>
        /\ sentiment_output.label = "positive"
        /\ result.sentiment = "negative"
        /\ result.sentiment_confidence =
               sentiment_output.probs[IndexOf("positive", sentiment_output.classes)]
        /\ result.sentiment_intensity = get_intensity(result.sentiment_confidence)
        /\ WithoutOverride =
               [f \in FrameFields \cup { "sentiment" } |->
                   IF f = "sentiment" THEN "positive" ELSE result[f]]

\* C28 witness: an overridden enrichment whose confidence 0.75 and
\* intensity "high" are those of the positive label.
C28_Witness ==
    /\ Returned
    /\ Overridden
    /\ text = << "!", "!" >>
    /\ sentiment_output.probs = << 10, 15, 75 >>
    /\ result.sentiment = "negative"
    /\ result.sentiment_confidence = 75
    /\ result.sentiment_intensity = "high"
    /\ result.is_mixed_emotion

\* Each item's business_insight is get_business_insight of its emotion.
InsightOfOwnEmotion ==
    \A k \in 1..Len(predictions) :
        predictions[k].business_insight = get_business_insight(predictions[k].emotion)

Urgent(p) == p.business_insight.priority \in { "Critical", "High" }

\* The number of items with priority Critical or High.
UrgentCount == Cardinality({ k \in 1..Len(predictions) : Urgent(predictions[k]) })

\* C29: for any batch in which each item's business_insight is
\* get_business_insight of that item's emotion, every item returned by
\* high_risk_feedback has priority Critical or High, so in
\* generate_summary_report high_risk_count <= urgent_attention_needed,
\* where urgent_attention_needed is the number of items with priority
\* Critical or High.
C29_HighRiskIsUrgent ==
    /\ (pc = "batch" /\ InsightOfOwnEmotion) =>
         /\ (last_query.name = "high_risk_feedback" /\ last_query.raised = None) =>
              /\ \A i \in 1..Len(last_query.value.rows) :
                    \A k \in 1..Len(predictions) :
                        RiskView(predictions[k]) = last_query.value.rows[i]
                            => Urgent(predictions[k])
              /\ Len(last_query.value.rows) <= UrgentCount
         /\ (last_query.name = "generate_summary_report" /\ last_query.raised = None) =>
              /\ last_query.value.urgent_attention_needed = UrgentCount
              /\ last_query.value.high_risk_count <= last_query.value.urgent_attention_needed
    /\ \A e \in { "anger", "frustration", "disappointment", "regret" } :
         get_business_insight(e).priority \in { "Critical", "High" }

\* C29 witness: the report on two angry items (0.90 and 0.75) and a fearful
\* one: one high-risk item, three urgent ones.
C29_Witness ==
    /\ pc = "batch"
    /\ InsightOfOwnEmotion
    /\ last_query.name = "generate_summary_report"
    /\ last_query.raised = None
    /\ Len(predictions) = 3
    /\ last_query.value.high_risk_count = 1
    /\ last_query.value.urgent_attention_needed = 3

\* format_prediction returned a record.
Formatted == pc = "done" /\ result # NoResult /\ ~Raised(result) /\ "clean_text" \in DOMAIN result

\* The characters the punctuation and quote detectors look for.
Marks == { "!", "?", DQ, SQ }

HasMarks(toks) == \E i \in 1..Len(toks) : toks[i] \in Marks

\* The scores of the phrase, contrast and mismatch detectors for the cleaned
\* text and the classifiers' labels, in detection order.
CleanedScores ==
    FiredScores(<< _detect_sarcastic_phrases(Lower(result.clean_text)),
                   _detect_contrast(Lower(result.clean_text)),
                   _detect_polarity_mismatch(sentiment_output.label, emotion_output.label) >>)

\* C30: for any text that has passed through clean_text / preprocess_text,
\* as app.format_prediction does before it calls predict_with_details, the
\* excessive-punctuation and quoted-positive detectors never fire, because
\* cleaning removes every '!', '?', double and single quote; hence in the
\* enrichment pipeline the sarcasm verdict is derived only from the phrase,
\* contrast and polarity-mismatch signals.
C30_CleanedTextHasNoMarks ==
    Formatted =>
        /\ result.clean_text = preprocess_text(text)
        /\ ~HasMarks(clean_text(text))
        /\ ~HasMarks(result.clean_text)
        /\ _detect_excessive_punctuation(result.clean_text) = NoSignal
        /\ _detect_quoted_positives(result.clean_text) = NoSignal
        /\ \A i \in 1..Len(result.sarcasm_indicators) :
               result.sarcasm_indicators[i].kind \in
                   { "sarcastic phrase", "contrast: positive words with negative context",
                     "intensified positive", MismatchKind }
        /\ result.sarcasm_confidence = Fuse(CleanedScores).confidence
        /\ result.sarcasm_detected = Fuse(CleanedScores).is_sarcastic

\* C30 witness: on the text as typed both detectors fire ("!!" and the
\* quoted 'Fantastic'); the record is computed from "fantastic terrible":
\* a phrase and a contrast, confidence (0.75 + 0.70) / 2 + 0.15 = 0.875.
C30_Witness ==
    /\ Formatted
    /\ text = << SQ, "Fantastic", SQ, SP, "terrible", "!", "!" >>
    /\ _detect_excessive_punctuation(text) # NoSignal
    /\ _detect_quoted_positives(text) # NoSignal
    /\ result.clean_text = << "fantastic", SP, "terrible" >>
    /\ sentiment_output.label = "positive" /\ emotion_output.label = "joy"
    /\ result.sarcasm_confidence = 5250
    /\ Len(result.sarcasm_indicators) = 2

====
